---- MODULE Spec2Model ----
(***************************************************************************)
(* Authentication and transport core of the TradeStation client.           *)
(*                                                                         *)
(* The repository holds two variants of the client:                        *)
(*   "aio"    src/tradestation/tradestation.py  (aiohttp listener, gate is *)
(*            an asyncio.Event, handlers are tasks of one event loop)      *)
(*   "legacy" src/tradestation.py  (http.server listener on its own        *)
(*            thread, the constructor spins on access_token)               *)
(* One behaviour of the model is one client object of one variant.         *)
(***************************************************************************)
EXTENDS Integers, Sequences, FiniteSets, TLC

(* ------------------------------ bounds -------------------------------- *)
\* the clock runs over 0..MaxTime
MaxTime == 1
\* token-endpoint requests counted up to this cap
MaxRequests == 3
\* a streamed answer carries up to this many lines
MaxLines == 3
\* a stream read by a streaming consumer carries up to this many lines
MaxItems == 2
\* an Order is built with up to this many optional arguments
MaxOptions == 2

(* ------------------------- program constants -------------------------- *)
\* body.get('expires_in', 1200)
DefaultExpiresIn == 1200
\* timedelta(seconds=5) subtracted by the legacy client
LegacyMargin == 5
\* if not (1 <= interval <= 64999)
MaxInterval == 64999
\* if bars_back and not (1 <= bars_back <= 57600)
MaxStreamBarsBack == 57600

(* ----------------------------- value sets ------------------------------ *)
\* Python None, also "key absent from the JSON body"
None == "<None>"
\* an absent / present integer
NoInt == << >>
Some(n) == << n >>

Variants == {"aio", "legacy"}
\* refresh_token_margin values a caller may configure (60 is the default)
Margins == {0, 60}
AccessTokens == {"A1", "A2"}
\* expires_in of a token response: absent, or a number of seconds
ExpiresInValues == {NoInt, Some(60)}
\* the code query parameter of a redirect: absent, blank, or a code
Codes == {None, "", "c1"}
\* threads of the legacy client
Threads == {"srv", "main"}

NoError == "none"
ErrObtain == "ValueError: Error obtaining token"
ErrRefresh == "ValueError: Error refreshing token"
ErrNoRefreshToken == "ValueError: No refresh token available"
ErrRequestFailed == "ValueError: Request failed with status code"
ErrKey == "KeyError"
ErrType == "TypeError"
ErrAttribute == "AttributeError"
ErrRuntime == "RuntimeError"
ErrJSONDecode == "json.JSONDecodeError"

\* a token-endpoint answer: status, whether its body is JSON, and the fields
\* of the JSON body: 200 answers with an access token (two that differ in
\* both tokens, and one without refresh_token), each with and without
\* expires_in, one with a blank refresh_token, and for both statuses a body
\* {} and a body that is not JSON
NoResp == [status |-> 0, json |-> FALSE, access_token |-> None, refresh_token |-> None,
           expires_in |-> NoInt]
TokenResponses ==
    { [status |-> 200, json |-> TRUE, access_token |-> p[1], refresh_token |-> p[2],
       expires_in |-> e] :
        p \in { << "A1", "R1" >>, << "A2", "R2" >>, << "A1", None >> }, e \in ExpiresInValues }
    \cup { [status |-> 200, json |-> TRUE, access_token |-> "A1", refresh_token |-> "",
             expires_in |-> NoInt] }
    \cup { [NoResp EXCEPT !.status = st, !.json = js] : st \in {200, 401}, js \in BOOLEAN }

(* --------------------------- Python helpers ---------------------------- *)
\* truth value of an Optional[str]: None and "" are falsy
Truthy(s) == s # None /\ s # ""

\* str(x) as used by an f-string
Str(x) == IF x = None THEN "None" ELSE x

\* body.get('expires_in', 1200)
ExpiresIn(resp) == IF resp.expires_in = NoInt THEN DefaultExpiresIn ELSE resp.expires_in[1]

VARIABLES
    callbacks,        \* aio: the callbacks with a code being handled, by the await they are at
    creds,            \* the credentials: the constructor's inputs, then self.client_id / self.client_secret
    refresh_task,     \* the task running _refresh_token_loop, if the owner created one
    variant,          \* which client this object is
    refresh_margin,   \* self.refresh_margin, seconds (aio); the legacy client has none
    now,              \* datetime.now(), seconds
    access_token,     \* self.access_token
    refresh_token,    \* self.refresh_token
    token_expiry,     \* self.token_expiry (aio) / self.expires_in (legacy): NoInt or Some(instant)
    auth_code_event,  \* self.auth_code_event (aio): TRUE once set
    ctor,             \* position of the constructing caller
    server_up,        \* the redirect listener accepts connections
    browser_opened,   \* webbrowser.open has been called
    th,               \* legacy: per thread, the token operation it runs and its position
    reply,            \* last answer of the redirect listener to the browser
    token_requests,   \* number of requests issued to the token endpoint
    issued,           \* access token of the latest 200 token response read by the client
    last,             \* outcome of the last completed token operation
    req               \* last request issued by the dispatcher

vars == << callbacks, creds, refresh_task, variant, refresh_margin, now, access_token, refresh_token, token_expiry,
           auth_code_event, ctor, server_up, browser_opened, th, reply,
           token_requests, issued, last, req >>

tokenState == << access_token, refresh_token, token_expiry >>

\* the last call of the request layer: its arguments, the request it issued,
\* the answer and what the caller got (NoReq: no call made yet).  op is
\* "dispatcher" for a direct call of a dispatcher function, else the name of
\* the operation called, with its arguments in args, the query parameters it
\* sent in params and the handler invocations it made in handled.
NoReq == [pc |-> "none", mode |-> "none", endpoint |-> None, urlarg |-> None, headers |-> None,
          auth |-> None, url |-> None, http |-> 0,
          resp |-> [status |-> 0, text |-> "", lines |-> << >>],
          returned |-> << >>, yielded |-> << >>, err |-> "none", message |-> "",
          op |-> "none", args |-> << >>, params |-> << >>, handled |-> << >>]
NoLast == [op |-> "none", err |-> NoError, resp |-> NoResp, sent |-> FALSE]
IdleThread == [pc |-> "idle", resp |-> NoResp, op |-> "none"]
\* no callback with a code is being handled
NoCallbacks == [posting |-> 0, returning |-> 0, raising |-> 0]

(* ---------------------------- credentials ------------------------------ *)
LiveApiUrl == "https://api.tradestation.com/v3"
DemoApiUrl == "https://sim-api.tradestation.com/v3"

\* what a construction is given: the client_id / client_secret / is_demo
\* arguments (the aiohttp client only) and the environment variables
CredentialInputs(v) ==
    IF v = "aio"
    THEN { [client_id |-> ia, client_secret |-> sa, is_demo |-> d,
            env |-> [CLIENT_ID |-> ie, CLIENT_SECRET |-> se, AUTH_URL |-> None,
                     TOKEN_URL |-> None, API_URL |-> None]] :
             ia \in {None, "client-id"}, sa \in {None, "client-secret"},
             ie \in {None, "client-id"}, se \in {None, "client-secret"}, d \in BOOLEAN }
    ELSE { [client_id |-> None, client_secret |-> None, is_demo |-> FALSE,
            env |-> [CLIENT_ID |-> ie, CLIENT_SECRET |-> se, AUTH_URL |-> au,
                     TOKEN_URL |-> tu, API_URL |-> api]] :
             ie \in {None, "client-id"}, se \in {None, "client-secret"},
             au \in {None, "https://signin.tradestation.com/authorize"},
             tu \in {None, "https://signin.tradestation.com/oauth/token"},
             api \in {None, LiveApiUrl} }

\* self.client_id = client_id if client_id else os.getenv('CLIENT_ID')   (aio)
\* self.client_id = os.getenv('CLIENT_ID')                               (legacy)
\* and the same for the secret: the value found for an argument and its
\* environment variable
Resolve(v, arg, env) == IF v = "aio" /\ Truthy(arg) THEN arg ELSE env

ErrAssertion == "AssertionError"
ErrMissingEnv == "ValueError: Missing required environment variables"

\* faulty variant: only the client identifier is checked
CredentialsErrorIdOnly(v, c) ==
    LET id == Resolve(v, c.client_id, c.env.CLIENT_ID)
    IN IF v = "aio"
       THEN IF ~Truthy(id) THEN ErrAssertion ELSE NoError
       ELSE IF ~Truthy(id) THEN ErrMissingEnv ELSE NoError

\* aio:    assert self.client_id, ...; assert self.client_secret, ...
\* legacy: if not all([self.client_id, self.client_secret, self.auth_url, self.token_url]):
\*             raise ValueError("Missing required environment variables")
CredentialsError(v, c) ==
    LET id == Resolve(v, c.client_id, c.env.CLIENT_ID)
        secret == Resolve(v, c.client_secret, c.env.CLIENT_SECRET)
    IN IF v = "aio"
       THEN IF ~Truthy(id) \/ ~Truthy(secret) THEN ErrAssertion ELSE NoError
       ELSE IF ~Truthy(id) \/ ~Truthy(secret)
               \/ ~Truthy(c.env.AUTH_URL) \/ ~Truthy(c.env.TOKEN_URL)
            THEN ErrMissingEnv
            ELSE NoError

\* no task runs _refresh_token_loop
LoopOff == [pc |-> "off", sleep |-> 0, at |-> 0, expiry |-> 0, err |-> "none"]

(* ------------------------------ Init ----------------------------------- *)
\* A construction about to begin: __init__ has been called with its inputs.
Init ==
    /\ variant \in Variants
    /\ creds \in CredentialInputs(variant)
    /\ callbacks = NoCallbacks
    /\ refresh_task = LoopOff
    /\ refresh_margin \in (IF variant = "aio" THEN Margins ELSE {LegacyMargin})
    /\ now = 0
    /\ access_token = None
    /\ refresh_token = None
    /\ token_expiry = NoInt
    /\ auth_code_event = FALSE
    /\ ctor = "new"
    /\ server_up = FALSE
    /\ browser_opened = FALSE
    /\ th = [t \in Threads |-> IdleThread]
    /\ reply = "none"
    /\ token_requests = 0
    /\ issued = None
    /\ last = NoLast
    /\ req = NoReq

(* ------------------------------ clock ---------------------------------- *)
Tick ==
    /\ now < MaxTime
    /\ now' = now + 1
    /\ UNCHANGED << callbacks, creds, refresh_task, variant, refresh_margin, access_token, refresh_token, token_expiry,
                    auth_code_event, ctor, server_up, browser_opened, th, reply,
                    token_requests, issued, last, req >>

(* --------------------------- constructor ------------------------------- *)
\* __init__ up to the call of _authenticate: the credentials are read and
\* checked, then the token fields are initialised
LoadCredentials ==
    /\ ctor = "new"
    /\ IF CredentialsError(variant, creds) # NoError
       THEN /\ ctor' = "failed"
            /\ last' = [NoLast EXCEPT !.op = "construct", !.err = CredentialsError(variant, creds)]
            /\ UNCHANGED creds
       ELSE /\ ctor' = "start"
            /\ creds' = [client_id |-> Resolve(variant, creds.client_id, creds.env.CLIENT_ID),
                          client_secret |-> Resolve(variant, creds.client_secret,
                                                    creds.env.CLIENT_SECRET),
                          api_url |-> IF variant = "legacy" THEN creds.env.API_URL
                                      ELSE IF creds.is_demo THEN DemoApiUrl ELSE LiveApiUrl]
            /\ UNCHANGED last
    /\ UNCHANGED << callbacks, refresh_task, variant, refresh_margin, now, access_token, refresh_token, token_expiry,
                    auth_code_event, server_up, browser_opened, th, reply, token_requests,
                    issued, req >>

\* faulty variant: _start_auth_server returns before the listener accepts
StartAuthServerNotAccepting ==
    /\ ctor = "start"
    /\ ctor' = "serving"
    /\ UNCHANGED << callbacks, creds, refresh_task, variant, refresh_margin, now, access_token, refresh_token, token_expiry,
                    auth_code_event, server_up, browser_opened, th, reply, token_requests, issued,
                    last, req >>

\* _authenticate: await self._start_auth_server() / self._start_server()
StartAuthServer ==
    /\ ctor = "start"
    /\ ctor' = "serving"
    /\ server_up' = TRUE
    /\ UNCHANGED << callbacks, creds, refresh_task, variant, refresh_margin, now, access_token, refresh_token, token_expiry,
                    auth_code_event, browser_opened, th, reply, token_requests, issued,
                    last, req >>

\* _authenticate: webbrowser.open(self._generate_auth_url())
OpenBrowser ==
    /\ ctor = "serving"
    /\ ctor' = "waiting"
    /\ browser_opened' = TRUE
    /\ UNCHANGED << callbacks, creds, refresh_task, variant, refresh_margin, now, access_token, refresh_token, token_expiry,
                    auth_code_event, server_up, th, reply, token_requests, issued,
                    last, req >>

\* faulty variant: the wait is skipped
GateOpenNoWait(v, event, at) == TRUE

\* what the constructing caller waits for
\*   aio:    await self.auth_code_event.wait()
\*   legacy: while self.access_token is None: pass
GateOpen(v, event, at) == IF v = "aio" THEN event ELSE at # None

\* the wait ends and the constructor returns
AuthenticateReturn ==
    /\ ctor = "waiting"
    /\ GateOpen(variant, auth_code_event, access_token)
    /\ ctor' = "returned"
    /\ UNCHANGED << callbacks, creds, refresh_task, variant, refresh_margin, now, access_token, refresh_token, token_expiry,
                    auth_code_event, server_up, browser_opened, th, reply, token_requests,
                    issued, last, req >>

(* --------------------- aio: authorization-code flow -------------------- *)
\* the token fields as one value, with the error the operation ends with
TS(at, rt, exp, err) == [access_token |-> at, refresh_token |-> rt, token_expiry |-> exp, err |-> err]

\* self.token_expiry = datetime.now() + timedelta(seconds=body.get('expires_in', 1200))
TokenExpiry(t, resp) == t + ExpiresIn(resp)

\* faulty variant: a rejected exchange clears the stored access token
ExchangeCodeForTokenClearing(ts, resp, t) ==
    IF resp.status = 200 /\ resp.access_token # None /\ resp.refresh_token # None
    THEN [access_token |-> resp.access_token, refresh_token |-> resp.refresh_token,
          token_expiry |-> Some(t + ExpiresIn(resp)), err |-> NoError]
    ELSE [ts EXCEPT !.access_token = None, !.err = ErrObtain]

\* _exchange_code_for_token, from the answer of the POST on: the fields it
\* leaves behind and the exception it ends with.  The three assignments are
\* made in order, so a missing key leaves the earlier ones written.
ExchangeCodeForToken(ts, resp, t) ==
    IF resp.status = 200
    THEN IF ~resp.json
         THEN [ts EXCEPT !.err = ErrJSONDecode]
         ELSE IF resp.access_token = None
         THEN [ts EXCEPT !.err = ErrKey]
         ELSE IF resp.refresh_token = None
              THEN [ts EXCEPT !.access_token = resp.access_token, !.err = ErrKey]
              ELSE TS(resp.access_token, resp.refresh_token, Some(TokenExpiry(t, resp)), NoError)
    ELSE [ts EXCEPT !.err = ErrObtain]

\* _handle_auth_redirect reaches self.auth_code_event.set() only when the
\* awaited exchange returned without raising
GateSignalled(err) == err = NoError

\* what aiohttp answers to the browser for this callback
RedirectReply(code, err) ==
    IF ~Truthy(code) THEN "200 No authorization code found."
    ELSE IF err = NoError THEN "200 auth_success_html"
    ELSE "500"

\* aio: GET / on the local listener, up to its first await.  A callback
\* without a code is answered at once; one with a code posts the exchange
\* and is suspended in await client.post(...)
HandleAuthRedirect(code) ==
    /\ variant = "aio"
    /\ server_up
    /\ IF ~Truthy(code)
       THEN /\ reply' = RedirectReply(code, NoError)
            /\ UNCHANGED << token_requests, callbacks >>
       ELSE /\ token_requests < MaxRequests
            /\ token_requests' = token_requests + 1
            /\ callbacks' = [callbacks EXCEPT !.posting = @ + 1]
            /\ UNCHANGED reply
    /\ UNCHANGED << creds, refresh_task, variant, refresh_margin, now, access_token, refresh_token,
                    token_expiry, auth_code_event, ctor, server_up, browser_opened, th,
                    issued, last, req >>

\* the token endpoint answers one of the exchanges posted: the rest of the
\* body of the async with runs, then the callback is suspended where the
\* async with closes the HTTP client, returning or with its exception
ExchangeAnswer(resp) ==
    /\ variant = "aio"
    /\ callbacks.posting > 0
    /\ LET res == ExchangeCodeForToken(TS(access_token, refresh_token, token_expiry, NoError),
                                       resp, now)
       IN /\ access_token' = res.access_token
          /\ refresh_token' = res.refresh_token
          /\ token_expiry' = res.token_expiry
          /\ issued' = IF resp.status = 200 /\ resp.access_token # None
                       THEN resp.access_token ELSE issued
          /\ last' = [op |-> "exchange", err |-> res.err, resp |-> resp, sent |-> TRUE]
          /\ callbacks' = IF res.err = NoError
                          THEN [callbacks EXCEPT !.posting = @ - 1, !.returning = @ + 1]
                          ELSE [callbacks EXCEPT !.posting = @ - 1, !.raising = @ + 1]
    /\ UNCHANGED << creds, refresh_task, variant, refresh_margin, now, auth_code_event, ctor,
                    server_up, browser_opened, th, reply, token_requests, req >>

\* _exchange_code_for_token has ended: _handle_auth_redirect sets the event
\* and returns the success page, or the exception leaves it and aiohttp
\* answers 500
EndRedirect(raised) ==
    /\ variant = "aio"
    /\ IF raised THEN callbacks.raising > 0 ELSE callbacks.returning > 0
    /\ callbacks' = IF raised THEN [callbacks EXCEPT !.raising = @ - 1]
                    ELSE [callbacks EXCEPT !.returning = @ - 1]
    /\ auth_code_event' = (auth_code_event \/ GateSignalled(IF raised THEN ErrObtain ELSE NoError))
    /\ reply' = RedirectReply("c1", IF raised THEN ErrObtain ELSE NoError)
    /\ UNCHANGED << creds, refresh_task, variant, refresh_margin, now, access_token, refresh_token,
                    token_expiry, ctor, server_up, browser_opened, th, token_requests,
                    issued, last, req >>

(* ---------------------------- aio: refresh ------------------------------ *)
\* keyword parameters of _asend_request
AsendRequestParams == {"endpoint", "url", "params", "method", "headers", "payload"}
\* keywords _refresh_access_token passes to it
RefreshCallKwargs == {"url", "data", "headers"}

\* faulty variant: the check for a held refresh token is missing
RefreshAccessTokenUnguarded(rt, resp) ==
    IF ~(RefreshCallKwargs \subseteq AsendRequestParams)
    THEN [err |-> ErrType, sent |-> FALSE]
    ELSE [err |-> ErrAttribute, sent |-> TRUE]

\* _refresh_access_token: the exception it ends with and whether a request
\* went out.  The call binds its keywords first; _asend_request returns the
\* parsed body on 200 (a dict, which has no status_code) and raises on any
\* other status.
RefreshAccessToken(rt, resp) ==
    IF ~Truthy(rt) THEN [err |-> ErrNoRefreshToken, sent |-> FALSE]
    ELSE IF ~(RefreshCallKwargs \subseteq AsendRequestParams)
         THEN [err |-> ErrType, sent |-> FALSE]
         ELSE IF resp.status = 200
              THEN [err |-> ErrAttribute, sent |-> TRUE]
              ELSE [err |-> ErrRequestFailed, sent |-> TRUE]

\* aio: the owner of the client awaits _refresh_access_token(); resp is what
\* the token endpoint answers to a request, if one is issued
RefreshAio(resp) ==
    /\ variant = "aio"
    /\ ctor = "returned"
    /\ LET res == RefreshAccessToken(refresh_token, resp)
       IN /\ res.sent => token_requests < MaxRequests
          /\ token_requests' = IF res.sent THEN token_requests + 1 ELSE token_requests
          /\ last' = [op |-> "refresh", err |-> res.err,
                      resp |-> IF res.sent THEN resp ELSE NoResp,
                      sent |-> res.sent]
    /\ UNCHANGED << callbacks, creds, refresh_task, variant, refresh_margin, now, access_token, refresh_token, token_expiry,
                    auth_code_event, ctor, server_up, browser_opened, th, reply, issued, req >>

(* --------------------------- aio: refresh loop -------------------------- *)
SecondsPerDay == 86400

\* timedelta.seconds of a difference of d seconds: a timedelta is kept as
\* days (of either sign) and 0 <= seconds < 86400, and .seconds is the latter
Seconds(d) == d % SecondsPerDay

\* refresh_in = self.token_expiry - now - self.refresh_margin
\* refresh_in = max(refresh_in.seconds, 0)
RefreshIn(expiry, t, margin) ==
    LET seconds == Seconds(expiry - t - margin)
    IN IF seconds >= 0 THEN seconds ELSE 0

\* the owner of the client runs the loop as a task:
\* loop.create_task(self._refresh_token_loop())
StartLoop ==
    /\ variant = "aio"
    /\ ctor = "returned"
    /\ refresh_task.pc = "off"
    /\ refresh_task' = [refresh_task EXCEPT !.pc = "check"]
    /\ UNCHANGED << callbacks, creds, variant, refresh_margin, now, access_token, refresh_token, token_expiry,
                    auth_code_event, ctor, server_up, browser_opened, th, reply,
                    token_requests, issued, last, req >>

\* the head of an iteration: return without a refresh token, else compute
\* the duration and go to sleep
LoopIteration ==
    /\ refresh_task.pc = "check"
    /\ refresh_task' =
         IF ~Truthy(refresh_token)
         THEN [refresh_task EXCEPT !.pc = "returned"]
         ELSE [refresh_task EXCEPT !.pc = "sleeping", !.at = now, !.expiry = token_expiry[1],
                                   !.sleep = RefreshIn(token_expiry[1], now, refresh_margin)]
    /\ UNCHANGED << callbacks, creds, variant, refresh_margin, now, access_token, refresh_token, token_expiry,
                    auth_code_event, ctor, server_up, browser_opened, th, reply,
                    token_requests, issued, last, req >>

\* await asyncio.sleep(refresh_in) returns once the duration has passed
LoopWake ==
    /\ refresh_task.pc = "sleeping"
    /\ now' = IF now >= refresh_task.at + refresh_task.sleep
              THEN now ELSE refresh_task.at + refresh_task.sleep
    /\ refresh_task' = [refresh_task EXCEPT !.pc = "refreshing"]
    /\ UNCHANGED << callbacks, creds, variant, refresh_margin, access_token, refresh_token, token_expiry,
                    auth_code_event, ctor, server_up, browser_opened, th, reply,
                    token_requests, issued, last, req >>

\* await self._refresh_access_token(): an exception it raises ends the task,
\* a return starts the next iteration
LoopRefresh(resp) ==
    /\ refresh_task.pc = "refreshing"
    /\ LET res == RefreshAccessToken(refresh_token, resp)
       IN /\ res.sent => token_requests < MaxRequests
          /\ token_requests' = IF res.sent THEN token_requests + 1 ELSE token_requests
          /\ last' = [op |-> "refresh", err |-> res.err,
                      resp |-> IF res.sent THEN resp ELSE NoResp,
                      sent |-> res.sent]
          /\ refresh_task' = IF res.err = NoError
                             THEN [refresh_task EXCEPT !.pc = "check"]
                             ELSE [refresh_task EXCEPT !.pc = "raised", !.err = res.err]
    /\ UNCHANGED << callbacks, creds, variant, refresh_margin, now, access_token, refresh_token, token_expiry,
                    auth_code_event, ctor, server_up, browser_opened, th, reply, issued, req >>

\* the owner cancels the task; it ends at the await it is suspended in
CancelLoop ==
    /\ refresh_task.pc \in {"check", "sleeping", "refreshing"}
    /\ refresh_task' = [refresh_task EXCEPT !.pc = "cancelled"]
    /\ UNCHANGED << callbacks, creds, variant, refresh_margin, now, access_token, refresh_token, token_expiry,
                    auth_code_event, ctor, server_up, browser_opened, th, reply,
                    token_requests, issued, last, req >>

(* ------------------------ legacy: token response ----------------------- *)
\* self.expires_in = datetime.now() + timedelta(seconds=body.get('expires_in', 1200))
\*                   - timedelta(seconds=5)
ExpiresAt(t, resp) == t + ExpiresIn(resp) - LegacyMargin

\* _handle_token_response ends with loop = asyncio.get_event_loop();
\* loop.call_later(self.expires_in, ...).  On the listener thread there is no
\* event loop (RuntimeError).  On the main thread call_later adds a float to a
\* datetime (TypeError) where get_event_loop still makes a loop, and
\* get_event_loop raises RuntimeError where it no longer does.
ScheduleErrors(t) == IF t = "srv" THEN {ErrRuntime} ELSE {ErrType, ErrRuntime}

\* thread t ends its operation with exception err
Finish(t, err) ==
    /\ th' = [th EXCEPT ![t] = IdleThread]
    /\ last' = [op |-> th[t].op, err |-> err, resp |-> th[t].resp, sent |-> TRUE]

\* the request the listener thread is about to post counts against the bound
\* on token requests
Budget == token_requests + (IF th["srv"].pc = "call" THEN 1 ELSE 0) < MaxRequests

\* the listener thread enters exchange_code_for_token: requests.post sends
\* the request and blocks until the answer is there
PostExchange ==
    /\ variant = "legacy"
    /\ th["srv"].pc = "call"
    /\ token_requests' = token_requests + 1
    /\ th' = [th EXCEPT !["srv"].pc = "posting"]
    /\ UNCHANGED << callbacks, creds, refresh_task, variant, refresh_margin, now, access_token,
                    refresh_token, token_expiry, auth_code_event, ctor, server_up,
                    browser_opened, reply, issued, last, req >>

\* the answer resp arrives and thread t runs _handle_token_response up to and
\* including self.access_token = body['access_token']: the body is parsed
\* before the status is looked at
HandleTokenResponse(t, resp) ==
    /\ variant = "legacy"
    /\ th[t].pc = "posting"
    /\ issued' = IF resp.status = 200 /\ resp.access_token # None
                 THEN resp.access_token ELSE issued
    /\ IF ~resp.json \/ resp.status # 200 \/ resp.access_token = None
       THEN /\ last' = [op |-> th[t].op,
                        err |-> IF ~resp.json THEN ErrJSONDecode
                                ELSE IF resp.status # 200 THEN ErrObtain ELSE ErrKey,
                        resp |-> resp, sent |-> TRUE]
            /\ th' = [th EXCEPT ![t] = IdleThread]
            /\ UNCHANGED access_token
       ELSE /\ access_token' = resp.access_token
            /\ th' = [th EXCEPT ![t].pc = "w_refresh", ![t].resp = resp]
            /\ UNCHANGED last
    /\ UNCHANGED << callbacks, creds, refresh_task, variant, refresh_margin, now, refresh_token,
                    token_expiry, auth_code_event, ctor, server_up, browser_opened, reply,
                    token_requests, req >>

\* self.refresh_token = body['refresh_token']
WriteRefreshToken(t) ==
    /\ variant = "legacy"
    /\ th[t].pc = "w_refresh"
    /\ IF th[t].resp.refresh_token = None
       THEN /\ Finish(t, ErrKey)
            /\ UNCHANGED refresh_token
       ELSE /\ refresh_token' = th[t].resp.refresh_token
            /\ th' = [th EXCEPT ![t].pc = "w_expiry"]
            /\ UNCHANGED last
    /\ UNCHANGED << callbacks, creds, refresh_task, variant, refresh_margin, now, access_token, token_expiry, auth_code_event,
                    ctor, server_up, browser_opened, reply, token_requests, issued, req >>

\* self.expires_in = ...; then scheduling the next refresh raises
WriteExpiry(t) ==
    /\ variant = "legacy"
    /\ th[t].pc = "w_expiry"
    /\ token_expiry' = Some(ExpiresAt(now, th[t].resp))
    /\ \E err \in ScheduleErrors(t) : Finish(t, err)
    /\ UNCHANGED << callbacks, creds, refresh_task, variant, refresh_margin, now, access_token, refresh_token, auth_code_event,
                    ctor, server_up, browser_opened, reply, token_requests, issued, req >>

\* parse_qs drops blank values, so 'code' is in query_params only for a
\* non-blank code
HasCode(code) == code # None /\ code # ""

\* legacy: OAuthHandler.do_GET on the listener thread, up to the call of
\* exchange_code_for_token.  Status 200 is sent before auth_success.html is
\* opened, so without the file (page FALSE) the browser gets 200 and nothing
\* else and FileNotFoundError ends the handler; with it the whole page is
\* sent before the exchange.
DoGET(code, page) ==
    /\ variant = "legacy"
    /\ server_up
    /\ th["srv"].pc = "idle"
    /\ IF ~HasCode(code)
       THEN /\ reply' = "400 Error: No code received"
            /\ UNCHANGED th
       ELSE IF ~page
            THEN /\ reply' = "200"
                 /\ UNCHANGED th
            ELSE /\ Budget
                 /\ reply' = "200 auth_success.html"
                 /\ th' = [th EXCEPT !["srv"] = [IdleThread EXCEPT !.pc = "call",
                                                                   !.op = "exchange"]]
    /\ UNCHANGED << callbacks, creds, refresh_task, variant, refresh_margin, now, access_token,
                    refresh_token, token_expiry, auth_code_event, ctor, server_up,
                    browser_opened, token_requests, issued, last, req >>

\* legacy: the owner of the client calls exchange_code_for_token(code):
\* requests.post sends the request and blocks until the answer is there
OwnerExchange ==
    /\ variant = "legacy"
    /\ ctor = "returned"
    /\ th["main"].pc = "idle"
    /\ Budget
    /\ token_requests' = token_requests + 1
    /\ th' = [th EXCEPT !["main"] = [IdleThread EXCEPT !.pc = "posting", !.op = "exchange"]]
    /\ UNCHANGED << callbacks, creds, refresh_task, variant, refresh_margin, now, access_token,
                    refresh_token, token_expiry, auth_code_event, ctor, server_up,
                    browser_opened, reply, issued, last, req >>

\* legacy: refresh_access_token called by the owner of the client, up to
\* requests.post: without a refresh token it raises, with one the request
\* goes out and the thread blocks until the answer is there
RefreshLegacy ==
    /\ variant = "legacy"
    /\ ctor = "returned"
    /\ th["main"].pc = "idle"
    /\ IF ~Truthy(refresh_token)
       THEN /\ last' = [op |-> "refresh", err |-> ErrNoRefreshToken, resp |-> NoResp,
                        sent |-> FALSE]
            /\ UNCHANGED << token_requests, th >>
       ELSE /\ Budget
            /\ token_requests' = token_requests + 1
            /\ th' = [th EXCEPT !["main"] = [IdleThread EXCEPT !.pc = "posting",
                                                                !.op = "refresh"]]
            /\ UNCHANGED last
    /\ UNCHANGED << callbacks, creds, refresh_task, variant, refresh_margin, now, access_token,
                    refresh_token, token_expiry, auth_code_event, ctor, server_up,
                    browser_opened, reply, issued, req >>

(* ----------------------------- dispatcher ------------------------------ *)
\* f"Bearer {self.access_token}"
Bearer(at) == "Bearer " \o Str(at)

\* the headers argument: None, or a dict with an Authorization entry of the
\* caller's ("" stands for a dict without one)
NoHeaders == None
CallerHeaders == {NoHeaders, "Basic caller"}

\* _send_request: if not headers: headers = {"Authorization": f"Bearer {self.access_token}"}
SendRequestAuth(headers, at) == IF ~Truthy(headers) THEN Bearer(at) ELSE headers

\* _asend_request, _stream_request, _astream_request:
\* if not headers and self.access_token: headers = {"Authorization": ...}
AsendRequestAuth(headers, at) ==
    IF ~Truthy(headers) /\ Truthy(at) THEN Bearer(at) ELSE headers

Modes(v) == IF v = "aio" THEN {"send", "asend", "stream", "astream"}
            ELSE {"send", "asend", "astream"}
\* the calls that read their answer line by line; "requests.get" is the
\* request the legacy stream_tick_bars makes itself
Streaming(mode) == mode \in {"stream", "astream", "requests.get"}

\* the Authorization header of the request a call issues (None: no header);
\* the legacy stream_tick_bars always writes the Bearer header
RequestAuth(mode, headers, at) ==
    IF mode \in {"send", "requests.get"} THEN SendRequestAuth(headers, at)
    ELSE AsendRequestAuth(headers, at)

\* the url argument, which only _asend_request of the aiohttp client takes:
\* None or an absolute URL
UrlArgs(v, mode) ==
    IF v = "aio" /\ mode = "asend"
    THEN {None, "https://sim-api.tradestation.com/v3/brokerage/accounts"}
    ELSE {None}

\* _asend_request: if not url: if not endpoint: raise ValueError(...)
MissingTarget(v, mode, endpoint, url) ==
    v = "aio" /\ mode = "asend" /\ ~Truthy(url) /\ ~Truthy(endpoint)

\* url = f"{self.api_url}/{endpoint}", unless _asend_request was given a url
RequestUrl(api, endpoint, url) ==
    IF Truthy(url) THEN url ELSE Str(api) \o "/" \o Str(endpoint)

\* A URL formatted from an api_url of None reads "None/..." and has no
\* scheme: requests raises MissingSchema and httpx UnsupportedProtocol, and
\* neither sends anything.
ErrMissingSchema == "requests.exceptions.MissingSchema"
ErrUnsupportedProtocol == "httpx.UnsupportedProtocol"

(* JSON texts a response can carry, and json.loads of each.  An object is   *)
(* the function from its keys to its values, {} the empty function << >>.   *)
(* The texts an answer of the model carries are those of this table, which  *)
(* are JSON, and the texts of Bodies, StreamLines and EdgeLines outside it, *)
(* none of which is JSON: json.loads raises JSONDecodeError for them.       *)
JsonObjects ==
    {"{}", "{\"Heartbeat\": 1}", "{\"Error\": \"Failed\"}", "{\"StreamStatus\": \"EndSnapshot\"}",
     "{\"Deleted\": true}", "{\"Bar\": \"X\"}", "{\"Heartbeat\": 1, \"Error\": \"Failed\"}",
     "{\"StreamStatus\": \"EndSnapshot\", \"Deleted\": true}",
     "{\"Error\": \"Failed\", \"Deleted\": true}", "{\"Bars\": [\"B1\"]}"}
IsJson(text) == text \in JsonObjects
JsonLoads(text) ==
    CASE text = "{}" -> << >>
      [] text = "{\"Heartbeat\": 1}" -> [Heartbeat |-> 1]
      [] text = "{\"Error\": \"Failed\"}" -> [Error |-> "Failed"]
      [] text = "{\"StreamStatus\": \"EndSnapshot\"}" -> [StreamStatus |-> "EndSnapshot"]
      [] text = "{\"Deleted\": true}" -> [Deleted |-> TRUE]
      [] text = "{\"Bar\": \"X\"}" -> [Bar |-> "X"]
      [] text = "{\"Heartbeat\": 1, \"Error\": \"Failed\"}" -> [Heartbeat |-> 1, Error |-> "Failed"]
      [] text = "{\"StreamStatus\": \"EndSnapshot\", \"Deleted\": true}" ->
            [StreamStatus |-> "EndSnapshot", Deleted |-> TRUE]
      [] text = "{\"Error\": \"Failed\", \"Deleted\": true}" -> [Error |-> "Failed", Deleted |-> TRUE]
      [] text = "{\"Bars\": [\"B1\"]}" -> [Bars |-> << "B1" >>]

ErrConfig == "ValueError: Either endpoint or url must be provided."
ErrInvalidJSON == "ValueError: Invalid JSON received"

\* response.status_code values: 200, another success code, a rejection
Statuses == {200, 204, 401}
\* response.text of a non-streaming answer
Bodies == {"{\"Bars\": [\"B1\"]}", "{\"Bar\": \"X\"}", "{}", "Unauthorized"}
\* the lines response.iter_lines() hands out
StreamLines == {"", "{\"Heartbeat\": 1}", "{\"Bar\": \"X\"}", "not-json"}
\* lines that repr does not write as they are: one with an apostrophe, one
\* with a backslash, one with a tab
EdgeLines == {"it's", "a\\b", "tab\there"}

\* the body of a streamed answer: its lines joined by newlines; sep is the
\* newline itself, or the two characters repr writes for it
RECURSIVE JoinLines(_, _)
JoinLines(lines, sep) ==
    IF lines = << >> THEN ""
    ELSE IF Len(lines) = 1 THEN lines[1]
    ELSE lines[1] \o sep \o JoinLines(Tail(lines), sep)

\* the answers to a call.  A streamed answer 200 arrives as its status, the
\* lines follow one by one; the body of any other streamed answer is read
\* whole: an empty body, one line of StreamLines or of EdgeLines, or two
\* lines of which one holds an apostrophe and the other double quotes.
Responses(mode) ==
    IF Streaming(mode)
    THEN { [status |-> 200, text |-> "", lines |-> << >>] }
         \cup { [status |-> st, text |-> JoinLines(ls, "\n"), lines |-> ls] :
                  st \in Statuses \ {200},
                  ls \in { << >>, << "it's", "{\"Bar\": \"X\"}" >> }
                           \cup { << l >> : l \in StreamLines \cup EdgeLines } }
    ELSE { [status |-> st, text |-> b, lines |-> << >>] : st \in Statuses, b \in Bodies }

\* f"Request failed with status code {response.status_code} and message: \"{...}\""
RequestFailedMessage(status, text) ==
    "Request failed with status code " \o ToString(status) \o " and message: \"" \o text \o "\""

\* repr of the bytes object whose content is these lines joined by newlines.
\* The content is written between apostrophes, or between double quotes when
\* it holds an apostrophe and no double quote; a backslash is doubled, tab
\* and newline are written \t and \n, and an apostrophe between apostrophes
\* is written \'.  Of the lines of the model, those of JsonObjects other
\* than {} hold double quotes and those of EdgeLines the other characters.
BytesRepr(lines) ==
    LET apostrophe == \E i \in 1..Len(lines) : lines[i] = "it's"
        double == \E i \in 1..Len(lines) : lines[i] \in JsonObjects \ {"{}"}
        quote == IF apostrophe /\ ~double THEN "\"" ELSE "'"
        escaped(l) == IF l = "a\\b" THEN "a\\\\b"
                      ELSE IF l = "tab\there" THEN "tab\\there"
                      ELSE IF l = "it's" /\ quote = "'" THEN "it\\'s"
                      ELSE l
    IN  "b" \o quote \o JoinLines([i \in 1..Len(lines) |-> escaped(lines[i])], "\\n") \o quote

\* the text the message quotes: response.text, response.read().decode(), or
\* the bytes object that await response.aread() returns, formatted by repr
QuotedText(mode, resp) ==
    IF mode = "astream" THEN BytesRepr(resp.lines) ELSE resp.text

\* if response.status_code == 200: return response.json()  else: raise ValueError(...)
\* what the call ends with: the object returned or the exception raised
SendResult(mode, resp) ==
    IF resp.status = 200
    THEN IF IsJson(resp.text)
         THEN [pc |-> "done", returned |-> << JsonLoads(resp.text) >>, err |-> NoError,
               message |-> ""]
         ELSE [pc |-> "done", returned |-> << >>, err |-> ErrJSONDecode, message |-> ""]
    ELSE [pc |-> "done", returned |-> << >>, err |-> ErrRequestFailed,
          message |-> RequestFailedMessage(resp.status, QuotedText(mode, resp))]

\* faulty variant: the lines are read whatever the status
StreamResultAnyStatus(mode, resp) ==
    [pc |-> "streaming", returned |-> << >>, err |-> NoError, message |-> ""]

\* the generator of _stream_request / _astream_request when the answer is
\* there: with status 200 it goes on to read the lines, else it raises
StreamResult(mode, resp) ==
    IF resp.status = 200
    THEN [pc |-> "streaming", returned |-> << >>, err |-> NoError, message |-> ""]
    ELSE SendResult(mode, resp)

CallResult(mode, resp) ==
    IF Streaming(mode) THEN StreamResult(mode, resp) ELSE SendResult(mode, resp)

\* faulty variant: a line that is not JSON is skipped and the stream goes on
IterLinesResync(r, line) ==
    LET read == [r EXCEPT !.resp.lines = Append(@, line),
                          !.resp.text = JoinLines(Append(r.resp.lines, line), "\n")]
    IN  IF line = "" \/ ~IsJson(line) THEN read
        ELSE [read EXCEPT !.yielded = Append(@, JsonLoads(line))]

\* for line in response.iter_lines(): if line: try: yield json.loads(line)
\*                                     except JSONDecodeError: raise ValueError(...)
\* one turn of the loop of the call r, for the line read
IterLines(r, line) ==
    LET read == [r EXCEPT !.resp.lines = Append(@, line),
                          !.resp.text = JoinLines(Append(r.resp.lines, line), "\n")]
    IN  IF line = "" THEN read
        ELSE IF IsJson(line) THEN [read EXCEPT !.yielded = Append(@, JsonLoads(line))]
        ELSE [read EXCEPT !.pc = "done", !.err = ErrInvalidJSON,
                          !.message = "Invalid JSON received: " \o line]

\* raise ValueError("Either endpoint or url must be provided."): no request
Refused(mode, endpoint, url, headers) ==
    [NoReq EXCEPT !.pc = "done", !.mode = mode, !.endpoint = endpoint, !.urlarg = url,
                  !.headers = headers, !.err = ErrConfig,
                  !.message = "Either endpoint or url must be provided.",
                  !.op = "dispatcher"]

\* a call up to its request (client.request, client.stream, httpx.stream,
\* requests.request, requests.get): the URL and the headers are built, the
\* access token is read, and the request goes out, unless the library
\* refuses the URL
Requested(mode, endpoint, url, headers, at) ==
    LET built == [NoReq EXCEPT !.mode = mode, !.endpoint = endpoint, !.urlarg = url,
                               !.headers = headers, !.op = "dispatcher",
                               !.auth = RequestAuth(mode, headers, at),
                               !.url = RequestUrl(creds.api_url, endpoint, url)]
    IN  IF ~Truthy(url) /\ creds.api_url = None
        THEN [built EXCEPT !.pc = "done",
                           !.err = IF mode \in {"send", "requests.get"}
                                   THEN ErrMissingSchema ELSE ErrUnsupportedProtocol]
        ELSE [built EXCEPT !.pc = "sent", !.http = 1]

\* a dispatcher call, from its arguments to its request.  The legacy owner
\* can call only once the constructor has returned and while it is not
\* inside a token operation.
Dispatch(mode, endpoint, url, headers) ==
    /\ mode \in Modes(variant)
    /\ variant = "legacy" => (ctor = "returned" /\ th["main"].pc = "idle")
    /\ req' = IF MissingTarget(variant, mode, endpoint, url)
              THEN Refused(mode, endpoint, url, headers)
              ELSE Requested(mode, endpoint, url, headers, access_token)
    /\ UNCHANGED << callbacks, creds, refresh_task, variant, refresh_margin, now, access_token, refresh_token, token_expiry,
                    auth_code_event, ctor, server_up, browser_opened, th, reply,
                    token_requests, issued, last >>

(* ------------------------- streaming consumers ------------------------- *)
StreamConsumers(v) ==
    IF v = "aio"
    THEN {"stream_tick_bars", "astream_tick_bars", "stream_positions", "astream_positions",
          "stream_orders", "astream_orders", "stream_orders_by_id", "astream_orders_by_id"}
    ELSE {"stream_tick_bars", "astream_tick_bars"}
TickBarConsumers == {"stream_tick_bars", "astream_tick_bars"}
PositionConsumers == {"stream_positions", "astream_positions"}
AsyncConsumers == {"astream_tick_bars", "astream_positions", "astream_orders",
                   "astream_orders_by_id"}

\* the dispatcher function a consumer iterates; the legacy stream_tick_bars
\* calls requests.get itself
ConsumerMode(v, c) ==
    IF c \in AsyncConsumers THEN "astream"
    ELSE IF v = "legacy" THEN "requests.get" ELSE "stream"

\* the endpoint, for symbol MSFT, account ACC1 and order O1
ConsumerEndpoint(c) ==
    IF c \in TickBarConsumers THEN "marketdata/stream/barcharts/MSFT"
    ELSE IF c \in PositionConsumers THEN "brokerage/stream/accounts/ACC1/positions"
    ELSE IF c \in {"stream_orders", "astream_orders"} THEN "brokerage/stream/accounts/ACC1/orders"
    ELSE "brokerage/stream/accounts/ACC1/orders/O1"

\* interval and bars_back of the tick-bar consumers (the other consumers are
\* called with accounts only)
TickArgs == { [interval |-> i, bars_back |-> b] :
                i \in {0, 1}, b \in {NoInt, Some(0), Some(5), Some(MaxStreamBarsBack + 1)} }
ConsumerArgs(c) == IF c \in TickBarConsumers THEN TickArgs ELSE {<< >>}

ErrInterval == "ValueError: Interval must be between 1 and 64999 ticks."
ErrBarsBack == "ValueError: BarsBack must be between 1 and 57600."

\* truth value of an Optional[int]: None and 0 are falsy
TruthyInt(n) == n # NoInt /\ n[1] # 0

\* the two checks that open stream_tick_bars / astream_tick_bars
TickArgsError(c, args) ==
    IF c \notin TickBarConsumers THEN NoError
    ELSE IF ~(1 <= args.interval /\ args.interval <= MaxInterval) THEN ErrInterval
    ELSE IF TruthyInt(args.bars_back)
            /\ ~(1 <= args.bars_back[1] /\ args.bars_back[1] <= MaxStreamBarsBack)
         THEN ErrBarsBack
    ELSE NoError

\* the query parameters a consumer passes on (the legacy stream_tick_bars
\* builds them and sends none)
ConsumerParams(v, c, args) ==
    IF c \in TickBarConsumers
    THEN IF v = "legacy" /\ c = "stream_tick_bars" THEN << >>
         ELSE IF TruthyInt(args.bars_back)
              THEN [interval |-> args.interval, unit |-> "Daily", sessiontemplate |-> "Default",
                    barsback |-> args.bars_back[1]]
              ELSE [interval |-> args.interval, unit |-> "Daily", sessiontemplate |-> "Default"]
    ELSE IF c \in PositionConsumers THEN [changes |-> "false"]
    ELSE << >>

\* if "Heartbeat" in data: ... elif "Error" in data: ... else: data_handler(data)
TickBarsHandler(data) ==
    IF "Heartbeat" \in DOMAIN data THEN "heartbeat_handler"
    ELSE IF "Error" \in DOMAIN data THEN "error_handler"
    ELSE "data_handler"

\* ... elif "StreamStatus" in data: ... else: data_handler(data)
OrdersHandler(data) ==
    IF "Heartbeat" \in DOMAIN data THEN "heartbeat_handler"
    ELSE IF "Error" \in DOMAIN data THEN "error_handler"
    ELSE IF "StreamStatus" \in DOMAIN data THEN "status_handler"
    ELSE "data_handler"

\* ... elif "StreamStatus" in data: ... elif "Deleted" in data: ... else: data_handler(data)
PositionsHandler(data) ==
    IF "Heartbeat" \in DOMAIN data THEN "heartbeat_handler"
    ELSE IF "Error" \in DOMAIN data THEN "error_handler"
    ELSE IF "StreamStatus" \in DOMAIN data THEN "status_handler"
    ELSE IF "Deleted" \in DOMAIN data THEN "deleted_handler"
    ELSE "data_handler"

ChosenHandler(c, data) ==
    IF c \in TickBarConsumers THEN TickBarsHandler(data)
    ELSE IF c \in PositionConsumers THEN PositionsHandler(data)
    ELSE OrdersHandler(data)

\* one handler invocation: the handler, its argument, and the position in
\* the stream of the decoded object it answers (0: it answers none)
Invocation(handler, arg, item) == [handler |-> handler, arg |-> arg, item |-> item]

InvalidData == [Error |-> "InvalidData", Message |-> "Received empty data from the stream."]
InvalidJSON(line) ==
    [Error |-> "InvalidJSON",
     Message |-> "The received data is not a valid json: \"" \o BytesRepr(<< line >>) \o "\""]

\* the body of a consumer's loop for the item at position i.  "if data:" is
\* false for an empty object: the tick-bar and position consumers of the
\* aiohttp client then report InvalidData, its asynchronous order consumers
\* and the legacy astream_tick_bars do nothing, and the synchronous order
\* consumers and the legacy stream_tick_bars have no such test.
Handle(v, c, data, i) ==
    IF DOMAIN data # {} THEN << Invocation(ChosenHandler(c, data), data, i) >>
    ELSE IF v = "aio" /\ c \in TickBarConsumers \cup PositionConsumers
         THEN << Invocation("error_handler", InvalidData, i) >>
    ELSE IF c \in AsyncConsumers THEN << >>
    ELSE << Invocation(ChosenHandler(c, data), data, i) >>

\* for data in self._stream_request(...): the body of the consumer's loop
\* runs on the item the generator has just yielded
HandleAll(v, before, after) ==
    IF after.op \in StreamConsumers(v) /\ Len(after.yielded) > Len(before.yielded)
    THEN [after EXCEPT !.handled = @ \o Handle(v, after.op, after.yielded[Len(after.yielded)],
                                                 Len(after.yielded))]
    ELSE after

\* one turn of the loop of the legacy stream_tick_bars over
\* response.iter_lines(): a line that is not JSON is reported to
\* error_handler and the loop goes on
LegacyTickLines(r, line) ==
    LET read == [r EXCEPT !.resp.lines = Append(@, line),
                          !.resp.text = JoinLines(Append(r.resp.lines, line), "\n")]
    IN  IF line = "" THEN read
        ELSE IF IsJson(line)
             THEN [read EXCEPT !.yielded = Append(@, JsonLoads(line)),
                               !.handled = @ \o Handle("legacy", "stream_tick_bars",
                                                       JsonLoads(line), Len(r.yielded) + 1)]
        ELSE [read EXCEPT !.handled = Append(@, Invocation("error_handler",
                                                           InvalidJSON(line), 0))]

\* a call of a streaming consumer, from its arguments to its request: the
\* argument checks, then the request of the dispatcher function it iterates
\* or, in the legacy stream_tick_bars, requests.get(url, headers=headers,
\* stream=True)
Consume(c, args) ==
    /\ c \in StreamConsumers(variant)
    /\ variant = "legacy" => (ctor = "returned" /\ th["main"].pc = "idle")
    /\ req' = IF TickArgsError(c, args) # NoError
              THEN [NoReq EXCEPT !.pc = "done", !.mode = "unsent", !.op = c, !.args = args,
                                 !.err = TickArgsError(c, args)]
              ELSE [Requested(ConsumerMode(variant, c), ConsumerEndpoint(c), None, NoHeaders,
                              access_token)
                       EXCEPT !.op = c, !.args = args, !.params = ConsumerParams(variant, c, args)]
    /\ UNCHANGED << callbacks, creds, refresh_task, variant, refresh_margin, now, access_token, refresh_token, token_expiry,
                    auth_code_event, ctor, server_up, browser_opened, th, reply,
                    token_requests, issued, last >>

(* ------------------------------ get_bars -------------------------------- *)
GetBarsOps(v) == IF v = "aio" THEN {"get_bars", "aget_bars"} ELSE {"get_bars"}

\* a datetime argument: None, or 2024-01-02 03:04:05.25 UTC
Dates == {None, "datetime(2024, 1, 2, 3, 4, 5, 250000, tzinfo=timezone.utc)"}
\* d.replace(microsecond=0).astimezone(timezone.utc).isoformat()
IsoFormatUtc(d) == "2024-01-02T03:04:05+00:00"
\* d.strftime("%Y-%m-%dT%H:%M:%SZ")
Strftime(d) == "2024-01-02T03:04:05Z"
\* the datetime as the legacy client hands it on: the object itself
DateObject(d) == IF d = None THEN None ELSE "2024-01-02 03:04:05.250000+00:00"

BarsArgs == { [bars_back |-> b, first_date |-> f, last_date |-> l] :
                b \in {NoInt, Some(0), Some(5)}, f \in Dates, l \in Dates }

ErrExclusive == "ValueError: bars_back and first_date should be mutually exclusive. Choose one."

\* if bars_back and first_date: raise ValueError(...)
BothGiven(args) == TruthyInt(args.bars_back) /\ Truthy(args.first_date)

\* if not bars_back and not first_date: bars_back = 1
BarsBack(args) ==
    IF ~TruthyInt(args.bars_back) /\ ~Truthy(args.first_date) THEN 1
    ELSE IF args.bars_back = NoInt THEN None ELSE args.bars_back[1]

\* the params dict of the aiohttp client
BarsParams(args) ==
    LET base == [interval |-> 1, unit |-> "Daily", sessiontemplate |-> "Default"]
        first == IF Truthy(args.first_date)
                 THEN base @@ [firstdate |-> IsoFormatUtc(args.first_date)]
                 ELSE base @@ [barsback |-> BarsBack(args)]
    IN  IF Truthy(args.last_date) THEN first @@ [lastdate |-> IsoFormatUtc(args.last_date)]
        ELSE first

\* the params dict of the legacy client: lastdate is always a key
LegacyBarsParams(args) ==
    LET base == [interval |-> 1, unit |-> "Daily", lastdate |-> DateObject(args.last_date),
                 sessiontemplate |-> "Default"]
    IN  IF Truthy(args.first_date) THEN base @@ [firstdate |-> Strftime(args.first_date)]
        ELSE base @@ [barsback |-> BarsBack(args)]

\* .get('Bars', []) of the object the dispatcher returned
GetBarsField(out) ==
    IF out.returned = << >> THEN out
    ELSE [out EXCEPT !.returned = IF "Bars" \in DOMAIN out.returned[1]
                                  THEN << out.returned[1].Bars >> ELSE << << >> >>]

\* aget_bars: await self._asend_request(f"marketdata/barcharts/{symbol}", params).
\* The second positional parameter of _asend_request is url, so the params
\* dict arrives as url and params stays None; the dict is truthy, the
\* endpoint is ignored, and httpx refuses a dict as URL with TypeError before
\* it sends anything.
AsentBars(op, args) ==
    [NoReq EXCEPT !.pc = "done", !.mode = "asend", !.endpoint = "marketdata/barcharts/MSFT",
                  !.urlarg = "<the params dict>", !.op = op, !.args = args,
                  !.err = ErrType,
                  !.message = "Invalid type for url.  Expected str or httpx.URL"]

\* a call of get_bars / aget_bars for symbol MSFT with the default interval,
\* unit and session template, from its arguments to its request:
\* self._send_request(f"marketdata/barcharts/{symbol}", params) in get_bars
GetBars(op, args) ==
    /\ op \in GetBarsOps(variant)
    /\ variant = "legacy" => (ctor = "returned" /\ th["main"].pc = "idle")
    /\ req' = IF BothGiven(args)
              THEN [NoReq EXCEPT !.pc = "done", !.mode = "unsent", !.op = op, !.args = args,
                                 !.err = ErrExclusive]
              ELSE IF op = "aget_bars" THEN AsentBars(op, args)
              ELSE [Requested("send", "marketdata/barcharts/MSFT", None, NoHeaders, access_token)
                       EXCEPT !.op = op, !.args = args,
                              !.params = IF variant = "aio" THEN BarsParams(args)
                                         ELSE LegacyBarsParams(args)]
    /\ UNCHANGED << callbacks, creds, refresh_task, variant, refresh_margin, now, access_token, refresh_token, token_expiry,
                    auth_code_event, ctor, server_up, browser_opened, th, reply,
                    token_requests, issued, last >>

(* -------------------------- the answer of a call ------------------------ *)
\* faulty variant: an answer 401 makes the call drop the access token
AnswerDroppingToken(resp) ==
    /\ req.pc = "sent"
    /\ LET out == CallResult(req.mode, resp)
       IN  req' = [req EXCEPT !.pc = out.pc, !.resp = resp, !.returned = out.returned,
                              !.err = out.err, !.message = out.message]
    /\ access_token' = IF resp.status = 401 THEN None ELSE access_token
    /\ UNCHANGED << callbacks, creds, refresh_task, variant, refresh_margin, now, refresh_token, token_expiry,
                    auth_code_event, ctor, server_up, browser_opened, th, reply,
                    token_requests, issued, last >>

\* faulty variant: an answer 401 is followed by a second attempt
AnswerRetrying(resp) ==
    /\ req.pc = "sent"
    /\ LET out == CallResult(req.mode, resp)
       IN  req' = [req EXCEPT !.pc = out.pc, !.resp = resp, !.returned = out.returned,
                              !.err = out.err, !.message = out.message,
                              !.http = IF resp.status = 401 THEN 2 ELSE 1]
    /\ UNCHANGED << callbacks, creds, refresh_task, variant, refresh_margin, now, access_token, refresh_token, token_expiry,
                    auth_code_event, ctor, server_up, browser_opened, th, reply,
                    token_requests, issued, last >>

\* the answer to the request of the call in req arrives: client.request,
\* requests.request, or entering the with of the stream, returns, and the
\* call tests the status.  get_bars of the aiohttp client takes the Bars of
\* the object returned.
Answer(resp) ==
    /\ req.pc = "sent"
    /\ LET res == CallResult(req.mode, resp)
           out == IF variant = "aio" /\ req.op = "get_bars" THEN GetBarsField(res) ELSE res
       IN  req' = [req EXCEPT !.pc = out.pc, !.resp = resp, !.returned = out.returned,
                              !.err = out.err, !.message = out.message]
    /\ UNCHANGED << callbacks, creds, refresh_task, variant, refresh_margin, now, access_token, refresh_token, token_expiry,
                    auth_code_event, ctor, server_up, browser_opened, th, reply,
                    token_requests, issued, last >>

\* the transport hands the next line to the generator, which yields its
\* object to the caller or raises; a consumer handles the object before it
\* asks for the next line.  A direct dispatcher call reads up to MaxLines
\* lines of StreamLines and EdgeLines, a consumer up to MaxItems lines, which
\* hold every object of JsonObjects.
ReadLine(line) ==
    /\ req.pc = "streaming"
    /\ Len(req.resp.lines) < (IF req.op = "dispatcher" THEN MaxLines ELSE MaxItems)
    /\ req.op = "dispatcher" => line \in StreamLines \cup EdgeLines
    /\ req' = IF req.mode = "requests.get" THEN LegacyTickLines(req, line)
              ELSE HandleAll(variant, req, IterLines(req, line))
    /\ UNCHANGED << callbacks, creds, refresh_task, variant, refresh_margin, now, access_token, refresh_token, token_expiry,
                    auth_code_event, ctor, server_up, browser_opened, th, reply,
                    token_requests, issued, last >>

\* the transport has no more lines: the loop and the generator end
EndStream ==
    /\ req.pc = "streaming"
    /\ req' = [req EXCEPT !.pc = "done"]
    /\ UNCHANGED << callbacks, creds, refresh_task, variant, refresh_margin, now, access_token, refresh_token, token_expiry,
                    auth_code_event, ctor, server_up, browser_opened, th, reply,
                    token_requests, issued, last >>

(* -------------------------------- Order --------------------------------- *)
\* an optional constructor argument: Unset is None, << v >> the value v
Unset == << >>

\* Order(account_id, symbol, quantity, order_type, trade_action,
\*       time_in_force_duration) with every optional argument at its default
RequiredOnly ==
    [account_id |-> "ACC1", symbol |-> "MSFT", quantity |-> "10", order_type |-> "Market",
     trade_action |-> "BUY", time_in_force_duration |-> "DAY",
     time_in_force_expiration |-> Unset, route |-> << "Intelligent" >>,
     limit_price |-> Unset, stop_price |-> Unset,
     add_liquidity |-> Unset, all_or_none |-> Unset, book_only |-> Unset,
     discretionary_price |-> Unset, market_activation_rules |-> Unset, non_display |-> Unset,
     peg_value |-> Unset, show_only_quantity |-> Unset, time_activation_rules |-> Unset,
     trailing_stop |-> Unset, buying_power_warning |-> Unset, order_confirm_id |-> Unset]

\* the advanced option fields and the key to_dict gives each
AdvancedKey(f) ==
    CASE f = "add_liquidity" -> "AddLiquidity"
      [] f = "all_or_none" -> "AllOrNone"
      [] f = "book_only" -> "BookOnly"
      [] f = "discretionary_price" -> "DiscretionaryPrice"
      [] f = "market_activation_rules" -> "MarketActivationRules"
      [] f = "non_display" -> "NonDisplay"
      [] f = "peg_value" -> "PegValue"
      [] f = "show_only_quantity" -> "ShowOnlyQuantity"
      [] f = "time_activation_rules" -> "TimeActivationRules"
      [] f = "trailing_stop" -> "TrailingStop"
      [] f = "buying_power_warning" -> "BuyingPowerWarning"
AdvancedFields ==
    {"add_liquidity", "all_or_none", "book_only", "discretionary_price",
     "market_activation_rules", "non_display", "peg_value", "show_only_quantity",
     "time_activation_rules", "trailing_stop", "buying_power_warning"}

\* an optional argument passed to the constructor, with a value of its type:
\* booleans true and false, strings blank and not, lists empty and not
OrderDate == "datetime(2024, 1, 2, 3, 4, 5, 250000, tzinfo=timezone.utc)"
Settings ==
    { << "time_in_force_expiration", << OrderDate >> >>,
      << "route", Unset >>, << "route", << "ARCX" >> >>,
      << "limit_price", << "" >> >>, << "limit_price", << "10.5" >> >>,
      << "stop_price", << "9.5" >> >>,
      << "add_liquidity", << TRUE >> >>, << "add_liquidity", << FALSE >> >>,
      << "all_or_none", << TRUE >> >>,
      << "book_only", << FALSE >> >>,
      << "discretionary_price", << "0.1" >> >>,
      << "market_activation_rules", << << >> >> >>,
      << "non_display", << TRUE >> >>,
      << "peg_value", << "BEST" >> >>,
      << "show_only_quantity", << "" >> >>,
      << "time_activation_rules", << << [TimeUtc |-> "2024-01-02T03:04:05Z"] >> >> >>,
      << "trailing_stop", << [Amount |-> "1.0"] >> >>,
      << "buying_power_warning", << "Enforce" >> >>,
      << "order_confirm_id", << "id1" >> >> }

\* the orders built with up to n optional arguments
RECURSIVE OrdersWith(_)
OrdersWith(n) ==
    IF n = 0 THEN {RequiredOnly}
    ELSE LET fewer == OrdersWith(n - 1)
         IN  fewer \cup { [o EXCEPT ![st[1]] = st[2]] : o \in fewer, st \in Settings }

\* truth value of an optional string or datetime: None and "" are falsy
TruthyOpt(x) == x # Unset /\ x[1] # ""
\* the value of an optional argument as to_dict writes it
ValueOf(x) == IF x = Unset THEN None ELSE x[1]

\* faulty variant: the boolean fields are tested for truth instead of "is not None"
AdvancedOptionsIfTruthy(o) ==
    LET set == { f \in AdvancedFields :
                   /\ o[f] # Unset
                   /\ f \in {"add_liquidity", "all_or_none", "book_only", "non_display"}
                         => o[f] = << TRUE >> }
    IN  [k \in { AdvancedKey(f) : f \in set } |->
            o[CHOOSE f \in set : AdvancedKey(f) = k][1]]

\* advanced_options = {}; if self.<field> is not None: advanced_options[<key>] = self.<field>
AdvancedOptions(o) ==
    LET set == { f \in AdvancedFields : o[f] # Unset }
    IN  [k \in { AdvancedKey(f) : f \in set } |->
            o[CHOOSE f \in set : AdvancedKey(f) = k][1]]

\* faulty variant: AdvancedOptions is written even when it is empty
ToDictAdvancedAlways(o) ==
    [AccountID |-> o.account_id, Symbol |-> o.symbol, Quantity |-> o.quantity,
     OrderType |-> o.order_type, TradeAction |-> o.trade_action,
     TimeInForce |-> [Duration |-> o.time_in_force_duration],
     Route |-> ValueOf(o.route), AdvancedOptions |-> AdvancedOptions(o)]

\* Order.to_dict
ToDict(o) ==
    LET tif == IF TruthyOpt(o.time_in_force_expiration)
               THEN [Duration |-> o.time_in_force_duration,
                     Expiration |-> IsoFormatUtc(o.time_in_force_expiration[1])]
               ELSE [Duration |-> o.time_in_force_duration]
        order_dict ==
            [AccountID |-> o.account_id, Symbol |-> o.symbol, Quantity |-> o.quantity,
             OrderType |-> o.order_type, TradeAction |-> o.trade_action,
             TimeInForce |-> tif, Route |-> ValueOf(o.route)]
        limit == IF TruthyOpt(o.limit_price) THEN [LimitPrice |-> o.limit_price[1]] ELSE << >>
        stop == IF TruthyOpt(o.stop_price) THEN [StopPrice |-> o.stop_price[1]] ELSE << >>
        advanced == IF DOMAIN AdvancedOptions(o) # {}
                    THEN [AdvancedOptions |-> AdvancedOptions(o)] ELSE << >>
        confirm == IF TruthyOpt(o.order_confirm_id)
                   THEN [OrderConfirmID |-> o.order_confirm_id[1]] ELSE << >>
    IN  order_dict @@ limit @@ stop @@ advanced @@ confirm

\* order.to_dict() on the order held in req.args
OrderToDict ==
    /\ req.op = "Order"
    /\ req' = [req EXCEPT !.op = "Order.to_dict", !.returned = << ToDict(req.args) >>]
    /\ UNCHANGED << callbacks, creds, refresh_task, variant, refresh_margin, now, access_token, refresh_token, token_expiry,
                    auth_code_event, ctor, server_up, browser_opened, th, reply,
                    token_requests, issued, last >>

(* ------------------------------- Next ----------------------------------- *)
RefreshCallAio ==
    \E resp \in (IF RefreshAccessToken(refresh_token, NoResp).sent
                 THEN TokenResponses ELSE {NoResp}) :
        RefreshAio(resp)
LegacyStep == PostExchange \/ \E t \in Threads : WriteRefreshToken(t) \/ WriteExpiry(t)

Next ==
    \/ Tick
    \/ LoadCredentials
    \/ StartAuthServer
    \/ OpenBrowser
    \/ AuthenticateReturn
    \/ \E code \in Codes : HandleAuthRedirect(code)
    \/ \E resp \in TokenResponses : ExchangeAnswer(resp)
    \/ \E raised \in BOOLEAN : EndRedirect(raised)
    \/ RefreshCallAio
    \/ \E code \in Codes, page \in BOOLEAN : DoGET(code, page)
    \/ OwnerExchange
    \/ RefreshLegacy
    \/ \E t \in Threads, resp \in TokenResponses : HandleTokenResponse(t, resp)
    \/ LegacyStep

Spec == Init /\ [][Next]_vars

\* The steps of the program itself are taken when they can be: the
\* constructor runs its statements one after the other and resumes once the
\* gate is open, and a thread of the legacy client that has read an answer
\* goes on to its next statement.  Callbacks and refresh calls come from
\* outside and may never happen.
SpecFair ==
    /\ Spec
    /\ WF_vars(LoadCredentials)
    /\ WF_vars(StartAuthServer)
    /\ WF_vars(OpenBrowser)
    /\ WF_vars(AuthenticateReturn)
    /\ WF_vars(\E raised \in BOOLEAN : EndRedirect(raised))
    /\ WF_vars(LegacyStep)

(* ---------------------- dispatcher specification ------------------------ *)
\* The dispatcher reads the token store and writes nothing, so its calls are
\* checked from the token stores a client can hold when one is made: the
\* empty store of a client still waiting for a redirect it can accept (aio,
\* where other tasks of the loop run during the wait), and the store left by
\* a complete 200 exchange once the constructor has returned.  In both the
\* token endpoint has refused the exchanges of earlier callbacks, so that
\* one more exchange fits in the bound on token requests.
FullResponses == { r \in TokenResponses : r.access_token # None /\ r.refresh_token # None }

InitDispatch ==
    /\ variant \in Variants
    /\ \E api \in (IF variant = "aio" THEN {DemoApiUrl, LiveApiUrl} ELSE {None, LiveApiUrl}) :
          creds = [client_id |-> "client-id", client_secret |-> "client-secret", api_url |-> api]
    /\ callbacks = NoCallbacks
    /\ refresh_task = LoopOff
    /\ refresh_margin \in (IF variant = "aio" THEN Margins ELSE {LegacyMargin})
    /\ now = 0
    /\ \/ /\ variant = "aio"
          /\ ctor = "waiting"
          /\ auth_code_event = FALSE
          /\ access_token = None
          /\ refresh_token = None
          /\ token_expiry = NoInt
          /\ issued = None
          /\ last = [op |-> "exchange", err |-> ErrObtain, resp |-> [NoResp EXCEPT !.status = 401],
                     sent |-> TRUE]
          /\ reply = "500"
       \/ \E r \in FullResponses :
            /\ r.refresh_token = "R1" /\ r.expires_in = NoInt
            /\ ctor = "returned"
            /\ auth_code_event = (variant = "aio")
            /\ access_token = r.access_token
            /\ refresh_token = r.refresh_token
            /\ token_expiry = Some(IF variant = "aio" THEN TokenExpiry(0, r) ELSE ExpiresAt(0, r))
            /\ issued = r.access_token
            /\ last = [op |-> "exchange", err |-> IF variant = "aio" THEN NoError ELSE ErrRuntime,
                       resp |-> r, sent |-> TRUE]
            /\ reply = IF variant = "aio" THEN "200 auth_success_html" ELSE "200 auth_success.html"
    /\ token_requests = MaxRequests - 1
    /\ server_up = TRUE
    /\ browser_opened = TRUE
    /\ th = [t \in Threads |-> IdleThread]
    /\ req = NoReq

\* What a call does depends on its arguments, its answer and the token store,
\* never on an earlier call, so one call is explored from each store.
DispatchCall ==
    /\ req.pc = "none"
    /\ \E mode \in Modes(variant), endpoint \in {None, "brokerage/accounts"}, headers \in CallerHeaders :
           \E url \in UrlArgs(variant, mode) : Dispatch(mode, endpoint, url, headers)

\* the call in req goes on: its answer arrives, or the next line of it
CallStep ==
    \/ req.pc = "sent" /\ \E resp \in Responses(req.mode) : Answer(resp)
    \/ \E line \in JsonObjects \cup StreamLines \cup EdgeLines : ReadLine(line)
    \/ EndStream

\* The redirect listener is never stopped: the aiohttp site stays up on the
\* loop and the HTTPServer thread keeps serving, whether or not a call is in
\* flight.  The token endpoint answers the exchange of a callback with a
\* complete 200 answer that brings a new refresh token, or refuses it.
CallbackAnswers ==
    { r \in FullResponses : r.refresh_token = "R2" /\ r.expires_in = NoInt }
    \cup { [NoResp EXCEPT !.status = 401] }

Listener ==
    \/ \E code \in Codes : HandleAuthRedirect(code)
    \/ \E resp \in CallbackAnswers : ExchangeAnswer(resp)
    \/ \E raised \in BOOLEAN : EndRedirect(raised)
    \/ \E code \in Codes, page \in BOOLEAN : DoGET(code, page)
    \/ \E resp \in CallbackAnswers : HandleTokenResponse("srv", resp)
    \/ LegacyStep

\* the constructor returns once a callback has opened its gate, and the
\* clock advances, beside the calls and the listener
SpecDispatch ==
    InitDispatch /\ [][DispatchCall \/ CallStep \/ Listener \/ AuthenticateReturn \/ Tick]_vars

(* ------------------- streaming consumer specification ------------------- *)
\* one consumer call is explored from each token store
ConsumeCall ==
    /\ req.pc = "none"
    /\ \E c \in StreamConsumers(variant) : \E args \in ConsumerArgs(c) : Consume(c, args)

SpecConsume ==
    InitDispatch /\ [][ConsumeCall \/ CallStep \/ Listener \/ AuthenticateReturn \/ Tick]_vars

(* ------------------------- get_bars specification ------------------------ *)
\* one call is explored from each token store
GetBarsCall ==
    /\ req.pc = "none"
    /\ \E op \in GetBarsOps(variant), args \in BarsArgs : GetBars(op, args)

\* get_bars reads its answer whole
SpecBars ==
    InitDispatch
    /\ [][\/ GetBarsCall
          \/ req.pc = "sent" /\ \E resp \in Responses(req.mode) : Answer(resp)
          \/ Listener
          \/ AuthenticateReturn
          \/ Tick]_vars

(* -------------------------- Order specification ------------------------- *)
\* an Order object exists beside a client of the aiohttp module; it is built
\* with up to MaxOptions optional arguments and then serialized
InitOrder ==
    /\ variant = "aio"
    /\ creds = [client_id |-> "client-id", client_secret |-> "client-secret",
                api_url |-> DemoApiUrl]
    /\ callbacks = NoCallbacks
    /\ refresh_task = LoopOff
    /\ refresh_margin \in Margins
    /\ now = 0
    /\ ctor = "waiting"
    /\ auth_code_event = FALSE
    /\ access_token = None
    /\ refresh_token = None
    /\ token_expiry = NoInt
    /\ issued = None
    /\ last = NoLast
    /\ reply = "none"
    /\ token_requests = 0
    /\ server_up = TRUE
    /\ browser_opened = TRUE
    /\ th = [t \in Threads |-> IdleThread]
    /\ \E o \in OrdersWith(MaxOptions) :
          req = [NoReq EXCEPT !.mode = "local", !.op = "Order", !.args = o]

SpecOrder == InitOrder /\ [][OrderToDict]_vars

(* ----------------------- refresh-loop specification --------------------- *)
\* The loop reads the token store of a constructed aiohttp client, so it is
\* explored from every store the constructor can leave; the lifetime its
\* token response announced is none (the default applies), a minute, or
\* more than a day.
InitLoop ==
    /\ variant = "aio"
    /\ creds = [client_id |-> "client-id", client_secret |-> "client-secret",
                api_url |-> DemoApiUrl]
    /\ callbacks = NoCallbacks
    /\ refresh_task = LoopOff
    /\ refresh_margin \in Margins
    /\ now = 0
    /\ ctor = "returned"
    /\ auth_code_event = TRUE
    /\ \E r \in FullResponses, e \in {NoInt, Some(60), Some(SecondsPerDay + 60)} :
          LET resp == [r EXCEPT !.expires_in = e]
          IN /\ access_token = resp.access_token
             /\ refresh_token = resp.refresh_token
             /\ token_expiry = Some(TokenExpiry(0, resp))
             /\ issued = resp.access_token
             /\ last = [op |-> "exchange", err |-> NoError, resp |-> resp, sent |-> TRUE]
    /\ reply = "200 auth_success_html"
    /\ token_requests = 1
    /\ server_up = TRUE
    /\ browser_opened = TRUE
    /\ th = [t \in Threads |-> IdleThread]
    /\ req = NoReq

NextLoop ==
    \/ Tick
    \/ StartLoop
    \/ LoopIteration
    \/ LoopWake
    \/ \E resp \in (IF RefreshAccessToken(refresh_token, NoResp).sent
                    THEN TokenResponses ELSE {NoResp}) :
           LoopRefresh(resp)
    \/ CancelLoop

SpecLoop == InitLoop /\ [][NextLoop]_vars

(* --------------------- constructed-client specification ----------------- *)
\* The aiohttp client from the moment its callback has been served and the
\* gate is open: the constructor returns, then the caller uses the public
\* operations, calls the refresh operation, or starts the refresh loop and
\* may cancel it, while the clock advances and the listener, which nothing
\* stops, serves the callbacks that still reach it.
InitPublic ==
    /\ variant = "aio"
    /\ creds = [client_id |-> "client-id", client_secret |-> "client-secret",
                api_url |-> DemoApiUrl]
    /\ callbacks = NoCallbacks
    /\ refresh_task = LoopOff
    /\ refresh_margin \in Margins
    /\ now = 0
    /\ ctor = "waiting"
    /\ auth_code_event = TRUE
    /\ \E r \in FullResponses :
          /\ access_token = r.access_token
          /\ refresh_token = r.refresh_token
          /\ token_expiry = Some(TokenExpiry(0, r))
          /\ issued = r.access_token
          /\ last = [op |-> "exchange", err |-> NoError, resp |-> r, sent |-> TRUE]
    /\ reply = "200 auth_success_html"
    /\ token_requests = 1
    /\ server_up = TRUE
    /\ browser_opened = TRUE
    /\ th = [t \in Threads |-> IdleThread]
    /\ req = NoReq

\* A public operation of the constructed client is a stream consumer,
\* get_bars, or any other get_* or order operation, which is one dispatcher
\* call; the caller makes them one after the other.  The calls are made
\* with their default arguments, and answered 200, 204 or 401 with the body
\* {} (a stream: 200 and then lines, or a refusal with an empty body).
NextPublic ==
    \/ Tick
    \/ AuthenticateReturn
    \/ \E code \in Codes : HandleAuthRedirect(code)
    \/ \E resp \in CallbackAnswers : ExchangeAnswer(resp)
    \/ \E raised \in BOOLEAN : EndRedirect(raised)
    \/ RefreshCallAio
    \/ StartLoop
    \/ LoopIteration
    \/ LoopWake
    \/ \E resp \in (IF RefreshAccessToken(refresh_token, NoResp).sent
                    THEN TokenResponses ELSE {NoResp}) :
           LoopRefresh(resp)
    \/ CancelLoop
    \/ /\ ctor = "returned"
       /\ req.pc \in {"none", "done"}
       /\ \/ \E mode \in Modes(variant) : Dispatch(mode, "brokerage/accounts", None, NoHeaders)
          \/ \E c \in PositionConsumers : Consume(c, << >>)
          \/ \E op \in GetBarsOps(variant) :
                 GetBars(op, [bars_back |-> NoInt, first_date |-> None, last_date |-> None])
    \/ /\ req.pc = "sent"
       /\ \E resp \in { r \in Responses(req.mode) : r.text \in {"", "{}"} } : Answer(resp)
    \/ \E line \in {"{\"Heartbeat\": 1}", "not-json"} : ReadLine(line)
    \/ EndStream

SpecPublic == InitPublic /\ [][NextPublic]_vars

(* ======================================================================= *)
(*                               properties                                *)
(* ======================================================================= *)
\* errors the specification calls authentication errors
AuthErrors == {ErrObtain, ErrRefresh, ErrNoRefreshToken}

\* the answer resp of the token endpoint to a refresh is taken in: the aio
\* refresh is one step, the legacy one reads the answer after its request
RefreshStep(resp) ==
    \/ RefreshAio(resp) /\ Truthy(refresh_token)
    \/ th["main"].op = "refresh" /\ HandleTokenResponse("main", resp)

\* C1: in every state in which the constructor has returned, access_token is
\* present and a request has been made to the token endpoint that was
\* answered 200 with an access token (the token in the store was issued).
C1_ConstructorReturnsWithToken ==
    ctor = "returned" =>
        /\ access_token \in AccessTokens
        /\ token_requests > 0
        /\ issued \in AccessTokens

C1_Witness ==
    /\ ctor = "returned"
    /\ last.op = "exchange"
    /\ last.resp.status = 200
    /\ access_token = last.resp.access_token

\* C2 as stated: an exchange answered 200 with access_token A, refresh_token
\* and expires_in E at instant T leaves access_token = A and the expiry
\* instant T + E - refresh_margin (aio client, every configured margin).
C2_ExpiryMinusMargin ==
    [][\A resp \in FullResponses :
         ExchangeAnswer(resp) =>
            /\ access_token' = resp.access_token
            /\ token_expiry' = Some(now + ExpiresIn(resp) - refresh_margin)]_vars

\* C3: an exchange answered with a status other than 200 ends with the
\* token error ("Error obtaining token"), does not open the gate the
\* constructor waits on, moves the constructor nowhere and leaves
\* access_token as it was.
C3_RejectedExchangeKeepsGateShut ==
    [][\A resp \in TokenResponses :
         (/\ resp.status # 200
          /\ \/ ExchangeAnswer(resp)
             \/ \E t \in Threads : th[t].op = "exchange" /\ HandleTokenResponse(t, resp)) =>
            /\ last'.op = "exchange"
            /\ last'.err = ErrObtain
            /\ last'.err \in AuthErrors
            /\ auth_code_event' = auth_code_event
            /\ GateOpen(variant, auth_code_event, access_token)'
                 = GateOpen(variant, auth_code_event, access_token)
            /\ access_token' = access_token
            /\ ctor' = ctor]_vars

\* C4: a refresh called while no refresh_token is held ends with the
\* "No refresh token available" error, issues no request to the token
\* endpoint and leaves the three token fields unchanged.
C4_RefreshWithoutTokenFails ==
    [][\A resp \in TokenResponses \cup {NoResp} :
         ((RefreshAio(resp) \/ RefreshLegacy) /\ ~Truthy(refresh_token)) =>
            /\ last'.op = "refresh"
            /\ last'.err = ErrNoRefreshToken
            /\ ~last'.sent
            /\ token_requests' = token_requests
            /\ UNCHANGED tokenState]_vars

C4_Witness ==
    /\ last.op = "refresh"
    /\ last.err = ErrNoRefreshToken
    /\ ~last.sent
    /\ refresh_token = None

\* C5: a refresh called while a refresh_token is held, which the token
\* endpoint answers (or stands to answer) 200 with a new access token,
\* stores that token and ends without error, the expiry being recomputed
\* from the answer.
C5_RefreshSucceeds ==
    [][/\ \A resp \in TokenResponses :
            (RefreshStep(resp) /\ resp.status = 200 /\ resp.json
                /\ resp.access_token # None) =>
                   access_token' = resp.access_token
       /\ (last'.op = "refresh" /\ last'.sent /\ last'.resp.status = 200
              /\ last'.resp.access_token # None /\ last'.resp.refresh_token # None) =>
                 /\ last'.err = NoError
                 /\ token_expiry' # NoInt
      ]_vars

\* C6: a refresh answered 200 without a refresh_token does not fail and
\* keeps the refresh_token held before; one answered with a refresh_token
\* ends holding that one.
C6_RefreshTokenKeptOrRotated ==
    /\ (last.op = "refresh" /\ last.sent /\ last.resp.status = 200
           /\ last.resp.access_token # None /\ last.resp.refresh_token = None) =>
              /\ last.err = NoError
              /\ refresh_token # None
    /\ (last.op = "refresh" /\ last.err = NoError /\ last.resp.refresh_token # None) =>
              refresh_token = last.resp.refresh_token

\* C7: a refresh called while a refresh_token is held, which the token
\* endpoint answers with a status other than 200, ends with an
\* authentication error after exactly one request (the one the call made:
\* none follows the answer) and leaves the three token fields unchanged.
C7_RejectedRefreshFails ==
    [][\A resp \in TokenResponses :
         (RefreshStep(resp) /\ resp.status # 200) =>
            /\ last'.op = "refresh"
            /\ last'.err \in AuthErrors
            /\ last'.sent
            /\ token_requests' = token_requests + (IF variant = "aio" THEN 1 ELSE 0)
            /\ th' = [th EXCEPT !["main"] = IdleThread]
            /\ UNCHANGED tokenState]_vars

\* the three token fields all come from the answer resp read at instant t
Reflects(at, rt, exp, resp, t) ==
    /\ at = resp.access_token
    /\ rt = resp.refresh_token
    /\ exp = Some(t + ExpiresIn(resp))

\* C8: an exchange either leaves all three token fields reflecting the
\* answer it read or leaves all three as they were.
C8_AllOrNothing ==
    [][\A resp \in TokenResponses :
         ExchangeAnswer(resp) =>
            \/ Reflects(access_token', refresh_token', token_expiry', resp, now)
            \/ UNCHANGED tokenState]_vars

\* C9: access_token, once present, is never absent again, and after every
\* step it is the access token of the latest 200 answer of the token
\* endpoint that carried one.
C9_TokenNeverRolledBack ==
    [][/\ access_token # None => access_token' # None
       /\ access_token' = issued']_vars

C9_Witness ==
    /\ last.op = "exchange"
    /\ last.err = ErrObtain
    /\ access_token \in AccessTokens
    /\ access_token = issued
    /\ token_requests = 2

\* C10: a dispatcher call without caller headers, in every mode, sends its
\* request with "Authorization: Bearer <access_token>", the token being the
\* one held when the call is made, when access_token is present, and with
\* no Authorization header when it is absent.
C10_DefaultAuthorization ==
    [][(req.pc = "none" /\ req'.pc = "sent" /\ req'.headers = NoHeaders) =>
          req'.auth = (IF access_token # None THEN Bearer(access_token) ELSE None)]_vars

(* ------------------------- dispatcher contract -------------------------- *)
\* the call recorded in req issued a request in one of these modes and has
\* had its answer
Called(modes) == req.mode \in modes /\ req.http = 1 /\ req.pc \in {"streaming", "done"}

\* C11: a non-streaming dispatcher call (_send_request, _asend_request)
\* returns an object if and only if the status is 200, and the object is
\* then the parsed JSON body; for every other status it raises the request
\* error whose message holds the status code and the response text
\* unchanged.
C11_NonStreamingResult ==
    Called({"send", "asend"}) =>
        /\ req.returned # << >> <=> req.resp.status = 200
        /\ req.resp.status = 200 =>
              /\ req.err = NoError
              /\ IsJson(req.resp.text) => req.returned = << JsonLoads(req.resp.text) >>
        /\ req.resp.status # 200 =>
              /\ req.err = ErrRequestFailed
              /\ req.message = "Request failed with status code " \o ToString(req.resp.status)
                                  \o " and message: \"" \o req.resp.text \o "\""

\* position of the first non-empty line that is not JSON (Len + 1: none)
RECURSIVE FirstInvalid(_, _)
FirstInvalid(lines, i) ==
    IF i > Len(lines) THEN i
    ELSE IF lines[i] # "" /\ ~IsJson(lines[i]) THEN i
    ELSE FirstInvalid(lines, i + 1)

\* the decodings of the non-empty lines among the first n
Decodings(lines, n) ==
    LET kept == SelectSeq(SubSeq(lines, 1, n), LAMBDA l : l # "")
    IN  [i \in 1..Len(kept) |-> JsonLoads(kept[i])]

\* C12: a streaming dispatcher call answered 200 yields exactly the JSON
\* decodings of the non-empty lines before the first line that is not JSON,
\* in order; empty lines yield nothing; at the first invalid line it raises
\* the request error holding that raw line, and reads and yields nothing
\* after it.  (lines are the lines read so far.)
C12_StreamYields ==
    (Called({"stream", "astream"}) /\ req.resp.status = 200) =>
        LET lines == req.resp.lines
            k == FirstInvalid(lines, 1)
        IN  /\ req.yielded = Decodings(lines, k - 1)
            /\ k <= Len(lines) =>
                  /\ k = Len(lines)
                  /\ req.pc = "done"
                  /\ req.err = ErrInvalidJSON
                  /\ req.message = "Invalid JSON received: " \o lines[k]
            /\ k > Len(lines) => req.err = NoError

C12_Witness ==
    /\ Called({"stream"})
    /\ req.resp.status = 200
    /\ req.resp.lines = << "{\"Heartbeat\": 1}", "", "not-json" >>
    /\ req.yielded = << [Heartbeat |-> 1] >>
    /\ req.err = ErrInvalidJSON

\* C13: a streaming dispatcher call whose status is not 200 raises the
\* request error and yields no item, whatever lines the body holds.
C13_StreamRejected ==
    (Called({"stream", "astream"}) /\ req.resp.status # 200) =>
        (req.err = ErrRequestFailed /\ req.yielded = << >>)

C13_Witness ==
    /\ Called({"astream"})
    /\ req.resp.status = 401
    /\ req.resp.lines = << "{\"Bar\": \"X\"}" >>
    /\ req.err = ErrRequestFailed
    /\ req.yielded = << >>

\* C14: no dispatcher call, whatever its mode and outcome, changes
\* access_token, refresh_token or the expiry instant.
C14_DispatchKeepsTokenState ==
    [][req' # req => UNCHANGED tokenState]_vars

C14_Witness ==
    /\ Called({"astream"})
    /\ req.pc = "done"
    /\ req.err = ErrInvalidJSON
    /\ last.resp.refresh_token = "R1"
    /\ access_token = last.resp.access_token
    /\ refresh_token = last.resp.refresh_token
    /\ token_expiry # NoInt

\* C15 as stated: every dispatcher call issues exactly one HTTP request; an
\* answer other than 200, 401 included, reaches the caller as the request
\* error, and no step of the call sends anything to the token endpoint.
C15_ExactlyOneRequest ==
    [][req' # req =>
         /\ req'.http = 1
         /\ (req'.pc = "done" /\ req'.resp.status # 200) => req'.err = ErrRequestFailed
         /\ token_requests' = token_requests]_vars

\* C15 amended: a dispatcher call never issues a second HTTP request, and
\* issues exactly one unless it is refused before anything is sent (its
\* arguments name no target, or the HTTP library refuses the URL); an answer
\* other than 200, 401 included, reaches the caller as the request error,
\* and no step of the call sends anything to the token endpoint.
C15_OneRequestNoRetry ==
    [][req' # req =>
         /\ req'.http = (IF req'.err \in {ErrConfig, ErrMissingSchema, ErrUnsupportedProtocol}
                         THEN 0 ELSE 1)
         /\ (req'.pc = "done" /\ req'.http = 1 /\ req'.resp.status # 200) =>
                req'.err = ErrRequestFailed
         /\ token_requests' = token_requests]_vars

C15_Witness ==
    /\ Called({"send"})
    /\ req.resp.status = 401
    /\ req.err = ErrRequestFailed
    /\ token_requests = MaxRequests - 1

\* C16: a dispatcher call given neither an endpoint nor a url raises the
\* configuration error and issues no request, in every mode.
C16_MissingTargetRefused ==
    (req.mode # "none" /\ ~Truthy(req.endpoint) /\ ~Truthy(req.urlarg)) =>
        (req.err = ErrConfig /\ req.http = 0)

(* ------------------------- streaming consumers -------------------------- *)
\* the handler the classification rule names for a decoded object
FirstMarker(data) ==
    IF "Heartbeat" \in DOMAIN data THEN "heartbeat_handler"
    ELSE IF "Error" \in DOMAIN data THEN "error_handler"
    ELSE IF "StreamStatus" \in DOMAIN data THEN "status_handler"
    ELSE IF "Deleted" \in DOMAIN data THEN "deleted_handler"
    ELSE "data_handler"

\* the invocations a consumer made for the decoded object at position i
HandledFor(i) == SelectSeq(req.handled, LAMBDA inv : inv.item = i)

\* C17: in every streaming consumer, each object decoded from the stream
\* causes exactly one handler invocation, of the handler chosen by the first
\* marker key present in the order Heartbeat, Error, StreamStatus, Deleted
\* (the data handler when none is), with the object as argument; the empty
\* object included.
C17_OneHandlerPerObject ==
    req.op \in StreamConsumers(variant) =>
        \A i \in 1..Len(req.yielded) :
            HandledFor(i) = << Invocation(FirstMarker(req.yielded[i]), req.yielded[i], i) >>

(* ------------------------------- get_bars ------------------------------- *)
\* C18: get_bars and aget_bars called with both bars_back and first_date
\* raise the configuration error and send nothing; called with neither they
\* send a request with barsback = 1; every request they send carries exactly
\* one of the query keys firstdate and barsback.
C18_BarsBackOrFirstDate ==
    req.op \in {"get_bars", "aget_bars"} =>
        /\ (req.args.bars_back # NoInt /\ req.args.first_date # None) =>
              (req.err = ErrExclusive /\ req.http = 0)
        /\ (req.args.bars_back = NoInt /\ req.args.first_date = None) =>
              (req.http = 1 /\ "barsback" \in DOMAIN req.params /\ req.params.barsback = 1)
        /\ req.http = 1 =>
              ("firstdate" \in DOMAIN req.params) # ("barsback" \in DOMAIN req.params)

(* -------------------------------- Order --------------------------------- *)
\* req holds the payload to_dict made of the order req.args
Serialized == req.op = "Order.to_dict"
Payload == req.returned[1]

RequiredKeys == {"AccountID", "Symbol", "Quantity", "OrderType", "TradeAction", "TimeInForce"}

\* C19 as claimed: an Order built from only the required fields serializes
\* to an object whose keys are exactly the required keys, with the duration
\* nested under TimeInForce and no AdvancedOptions key.
C19_ExactlyRequiredKeys ==
    (Serialized /\ req.args = RequiredOnly) =>
        /\ DOMAIN Payload = RequiredKeys
        /\ Payload.TimeInForce = [Duration |-> req.args.time_in_force_duration]
        /\ "AdvancedOptions" \notin DOMAIN Payload

\* C19, amended: an Order built from only the required fields serializes to
\* an object whose keys are exactly the required keys and Route, Route
\* carrying the constructor's default "Intelligent"; each required key holds
\* its argument, the duration is alone under TimeInForce, and there is no
\* AdvancedOptions key.
C19_RequiredKeysAndRoute ==
    (Serialized /\ req.args = RequiredOnly) =>
        /\ DOMAIN Payload = RequiredKeys \cup {"Route"}
        /\ Payload.Route = "Intelligent"
        /\ Payload.AccountID = req.args.account_id
        /\ Payload.Symbol = req.args.symbol
        /\ Payload.Quantity = req.args.quantity
        /\ Payload.OrderType = req.args.order_type
        /\ Payload.TradeAction = req.args.trade_action
        /\ Payload.TimeInForce = [Duration |-> req.args.time_in_force_duration]

C19_Witness ==
    /\ Serialized
    /\ req.args = RequiredOnly
    /\ "Route" \in DOMAIN Payload
    /\ "AdvancedOptions" \notin DOMAIN Payload

\* the payload without its AdvancedOptions key
WithoutAdvanced(payload) == [k \in DOMAIN payload \ {"AdvancedOptions"} |-> payload[k]]

\* C20: for every advanced option field, an order with that field set and no
\* other optional argument serializes with an AdvancedOptions object of
\* exactly one key, the field's key, holding the field's value, and every
\* other key is as in the payload of the order without the field;
\* AdvancedOptions is a key of the payload exactly when some advanced option
\* is not None.
C20_OneAdvancedOption ==
    Serialized =>
        /\ \A f \in AdvancedFields :
              (req.args[f] # Unset /\ [req.args EXCEPT ![f] = Unset] = RequiredOnly) =>
                  /\ "AdvancedOptions" \in DOMAIN Payload
                  /\ DOMAIN Payload.AdvancedOptions = {AdvancedKey(f)}
                  /\ Payload.AdvancedOptions[AdvancedKey(f)] = req.args[f][1]
                  /\ WithoutAdvanced(Payload) = ToDict(RequiredOnly)
        /\ ("AdvancedOptions" \in DOMAIN Payload) <=> (\E f \in AdvancedFields : req.args[f] # Unset)

C20_Witness ==
    /\ Serialized
    /\ req.args = [RequiredOnly EXCEPT !.add_liquidity = << FALSE >>]
    /\ Payload.AdvancedOptions = [AddLiquidity |-> FALSE]

(* ------------------------ the redirect listener ------------------------- *)
\* HTTP status of an answer of the listener (0: nothing answered yet)
ReplyStatus(r) ==
    CASE r = "200 No authorization code found." -> 200
      [] r = "200 auth_success_html" -> 200
      [] r = "200 auth_success.html" -> 200
      [] r = "200" -> 200
      [] r = "400 Error: No code received" -> 400
      [] r = "500" -> 500
      [] OTHER -> 0

\* C21: a callback without a code parameter is answered with a 4xx status,
\* makes no request to the token endpoint and leaves the gate of the
\* constructor closed as it was.
C21_NoCodeAnswered400 ==
    [][(\E code \in Codes :
           \/ HandleAuthRedirect(code) /\ ~Truthy(code)
           \/ \E page \in BOOLEAN : DoGET(code, page) /\ ~HasCode(code)) =>
          /\ ReplyStatus(reply') \in 400..499
          /\ token_requests' = token_requests
          /\ GateOpen(variant, auth_code_event', access_token')
               = GateOpen(variant, auth_code_event, access_token)]_vars

\* C22: once a code has been received and the gate of the constructor has
\* fired, the listener is down: it serves no later callback and no second
\* exchange of an authorization code is made.
C22_ListenerTornDown ==
    [][GateOpen(variant, auth_code_event, access_token) =>
          /\ ~(\E code \in Codes, page \in BOOLEAN :
                  HandleAuthRedirect(code) \/ DoGET(code, page))
          /\ ~(\E resp \in TokenResponses :
                  ExchangeAnswer(resp) \/ HandleTokenResponse("srv", resp))]_vars

\* C23: in every execution the listener has been started and accepts
\* connections before the authorize URL is opened in the browser: whenever
\* the browser has been opened the listener is up.
C23_ListenerBeforeBrowser == browser_opened => server_up

C23_Witness ==
    /\ ctor = "waiting"
    /\ browser_opened
    /\ server_up
    /\ token_requests = 0

(* ----------------------------- construction ---------------------------- *)
\* C24: a construction whose client identifier or client secret is absent
\* ends with a fatal error, and it does so before the listener is started,
\* before the browser is opened and before any request to the network; a
\* failed construction does none of these later either.
C24_FailsFastWithoutCredentials ==
    /\ [][(/\ ctor = "new"
            /\ ctor' # "new"
            /\ \/ ~Truthy(Resolve(variant, creds.client_id, creds.env.CLIENT_ID))
               \/ ~Truthy(Resolve(variant, creds.client_secret, creds.env.CLIENT_SECRET))) =>
             /\ ctor' = "failed"
             /\ last'.op = "construct"
             /\ last'.err \in {ErrAssertion, ErrMissingEnv}]_vars
    /\ [](ctor \in {"new", "failed"} =>
             /\ ~server_up
             /\ ~browser_opened
             /\ token_requests = 0
             /\ access_token = None)

C24_Witness ==
    /\ ctor = "failed"
    /\ Truthy(Resolve(variant, creds.client_id, creds.env.CLIENT_ID))
    /\ ~Truthy(Resolve(variant, creds.client_secret, creds.env.CLIENT_SECRET))
    /\ ~server_up

(* ----------------------------- refresh loop ----------------------------- *)
\* C25: in each iteration of the refresh loop the duration slept is
\* max(expiry - now - refresh_margin, 0), expiry, now and margin being the
\* values the iteration read: the whole remaining time, days included, when
\* it is positive, and 0 when it is not.
C25_SleepIsRemainingTime ==
    refresh_task.pc = "sleeping" =>
        LET remaining == refresh_task.expiry - refresh_task.at - refresh_margin
        IN refresh_task.sleep = IF remaining >= 0 THEN remaining ELSE 0

\* C26: the refresh loop, once running, stops only on a missing refresh
\* token or on cancellation: a loop that has ended without being cancelled
\* holds no refresh token, so while one is held the iterations go on.
C26_LoopStopsOnlyWithoutToken ==
    refresh_task.pc \in {"returned", "raised"} => ~Truthy(refresh_token)

(* --------------------------- callback answers --------------------------- *)
\* C27: a callback with a code is answered with the success page only if
\* the exchange of that code was answered 200: when the token endpoint
\* rejects the exchange, the success page is not sent for that callback
\* (the answer of a callback whose exchange raised is not the page, and the
\* listener thread has not sent the page when it reads a rejection).
C27_SuccessPageOnlyAfterExchange ==
    [][/\ EndRedirect(TRUE) => reply' # "200 auth_success_html"
       /\ \A resp \in TokenResponses :
            (HandleTokenResponse("srv", resp) /\ resp.status # 200) =>
                reply' # "200 auth_success.html"]_vars

(* ------------------------- constructor's return ------------------------- *)
\* C28: under every interleaving of the callback with the constructing
\* caller, in the state in which the constructor returns access_token,
\* refresh_token and the expiry are all populated and come from the same
\* token response.
C28_ReturnsWithWholeResponse ==
    [][(ctor # "returned" /\ ctor' = "returned") =>
          \E resp \in FullResponses, t \in 0..now' :
              /\ access_token' = resp.access_token
              /\ refresh_token' = resp.refresh_token
              /\ token_expiry' \in {Some(TokenExpiry(t, resp)), Some(ExpiresAt(t, resp))}]_vars

(* -------------------------- constructed client -------------------------- *)
\* C29: in the aiohttp client the constructor returns without starting the
\* refresh loop and without a token request of its own; a public operation
\* changes neither the token store, nor the number of token requests, nor
\* the state of the loop; and as long as the caller has neither called the
\* refresh operation nor started the loop, the token store keeps its values
\* and the only token request made is the exchange of the construction.
C29_NoRefreshUnlessCalled ==
    /\ [][(ctor # "returned" /\ ctor' = "returned") =>
             /\ refresh_task'.pc = "off"
             /\ token_requests' = token_requests
             /\ UNCHANGED tokenState]_vars
    /\ [][req' # req =>
             /\ UNCHANGED tokenState
             /\ token_requests' = token_requests
             /\ refresh_task' = refresh_task
             /\ last' = last]_vars
    /\ [][(ctor = "returned" /\ refresh_task.pc = "off" /\ refresh_task'.pc = "off"
             /\ last.op # "refresh" /\ last'.op # "refresh") =>
                UNCHANGED tokenState]_vars
    /\ []((ctor = "returned" /\ refresh_task.pc = "off" /\ last.op # "refresh") =>
             /\ token_requests = 1
             /\ last.op = "exchange")

(* ------------------------ return of the constructor --------------------- *)
\* C30: once a callback with a code has had its exchange answered 200, the
\* constructor eventually returns, whatever callbacks were served before;
\* and the constructor returns only after such a callback.
C30_ReturnsAfterSuccessfulCallback ==
    /\ (\/ last.op = "exchange" /\ last.sent /\ last.resp.status = 200
        \/ th["srv"].pc \in {"w_refresh", "w_expiry"}) ~> (ctor = "returned")
    /\ [](ctor = "returned" => token_requests > 0 /\ issued # None)

====
